---- MODULE Spec2Model ----
(***************************************************************************)
(* Transaction adapter (TxAdapter.Wrap / Adapter.WrapInTx) and the         *)
(* statement executors (Adapter.Query, Adapter.QueryBulk) of               *)
(* kosatnkn/adapters.                                                      *)
(*                                                                         *)
(*   Spec         one goroutine, one tree of nested Wrap calls             *)
(*   SpecSeq      one goroutine, top-level Wrap calls one after another    *)
(*                on the same base context                                 *)
(*   SpecConc     goroutines that call Wrap concurrently                   *)
(*   SpecBulk     Query and QueryBulk with named parameters, inside and    *)
(*                outside a Wrap                                           *)
(*   SpecConvert  convertQuery applied to query texts                      *)
(*   SpecQuery    Query with a query text and a parameter mapping, or      *)
(*                QueryBulk, then a select                                 *)
(*   SpecBind     reorderParameters applied to mappings and name lists     *)
(*                                                                         *)
(* A context is represented by the transaction handle it carries (NoTx     *)
(* when it carries none).  A handle is an index into txs.  A row is named  *)
(* by the number of the insert statement that writes it.                   *)
(***************************************************************************)
EXTENDS Integers, Sequences, FiniteSets, TLC

\* ---------------------------------------------------------------- bounds
MaxFrames == 3      \* Wrap invocations in one tree of nested calls
MaxStmts == 2       \* statements issued over a run
MaxCalls == 1       \* top-level Wrap calls over a run
MaxSeqCalls == 2    \* SpecSeq: top-level Wrap calls made one after another
MaxMaps == 2        \* SpecBulk: parameter mappings handed to one QueryBulk
MaxProcs == 2       \* SpecConc: goroutines
MaxLen == 4         \* SpecConvert: characters of a query text
MaxNames == 3       \* SpecBind: names of an ordered name list

\* -------------------------------------------------------------- constants
NoTx == 0           \* ctx.Value(internal.TxKey) == nil
Nil  == 0           \* the nil interface{} value

\* ----------------------------------------------------------------- errors
NoErr      == [kind |-> "nil",    id |-> 0]
ErrTxDone  == [kind |-> "txdone", id |-> 0]   \* sql.ErrTxDone
ErrBegin   == [kind |-> "begin",  id |-> 0]   \* pool.Begin() failed
ErrFn      == [kind |-> "fn",     id |-> 0]   \* a failure fn raises itself
ErrExec(k) == [kind |-> "exec",   id |-> k]   \* backend rejected statement k
ErrBackend == [kind |-> "backend", id |-> 0]  \* Commit/Rollback failed in the backend
ErrPrepare == [kind |-> "prepare", id |-> 0]  \* the backend refused to prepare
ErrSelect  == [kind |-> "select", id |-> 0]   \* "select queries are not allowed"
ErrMissing(i) == [kind |-> "missing", id |-> i]  \* the i-th name has no value

VARIABLES
    table,      \* rows committed in the backend (visible to every reader)
    txs,        \* handle -> [state, writes]: transactions begun so far
    stack,      \* the Wrap frames in progress, outermost first
    nstmt,      \* statements issued so far
    ncalls,     \* top-level Wrap calls made so far
    nframes,    \* Wrap invocations of the current tree so far
    tableAt,    \* table when the current top-level Wrap was called
    log,        \* what the current Wrap tree did, in order
    swallowed,  \* some fn of the current tree saw a failure and did not return it
    result,     \* what the top-level Wrap returned to the program
    baseCtx,    \* the context the program passes to its top-level calls
    procs,      \* SpecConc: goroutine -> its Wrap invocation
    bulk,       \* SpecBulk: the calls of Query and QueryBulk made so far
    conv,       \* SpecConvert: a query text and what convertQuery made of it
    bind,       \* SpecBind: a mapping, a name list and what reorderParameters returned
    exec        \* SpecQuery: the calls of Query and QueryBulk made so far

vars == <<table, txs, stack, nstmt, ncalls, nframes, tableAt, log, swallowed,
          result, baseCtx, procs, bulk, conv, bind, exec>>

\* What the actions of one goroutine's Wrap tree leave alone.
elsewhere == <<procs, bulk, conv, bind, exec>>

\* One entry of log.  op is "Begin", "Stmt", "Commit", "Rollback" or "Return".
\*   tx     the handle the call was made on
\*   stmt   the statement, for "Stmt"
\*   depth  the nesting depth of the frame that made the call (1 is outermost)
\*   owner  whether that frame began the transaction
\*   open   whether the handle was open when the call was made
\*   err    the failure the call reported (for "Return": the one Wrap returned)
\*   valid  for "Stmt": whether the backend accepts the statement
\*   after  whether a nested Wrap had already returned to that frame's fn
\*   val, fnVal, fnErr   for "Return": the value Wrap returned, and the value
\*                       and failure its fn had returned
Ev(op, tx, stmt, depth, owner, open, err, valid, after, val, fnVal, fnErr) ==
    [op |-> op, tx |-> tx, stmt |-> stmt, depth |-> depth, owner |-> owner,
     open |-> open, err |-> err, valid |-> valid, after |-> after,
     val |-> val, fnVal |-> fnVal, fnErr |-> fnErr]

EvBegin(tx, depth, err) ==
    Ev("Begin", tx, 0, depth, TRUE, FALSE, err, TRUE, FALSE, Nil, Nil, NoErr)

EvStmt(k, on, f, depth, open, err, valid) ==
    Ev("Stmt", on, k, depth, f.owner, open, err, valid, f.inner, Nil, Nil, NoErr)

EvFinal(op, f, depth, open, err) ==
    Ev(op, f.tx, 0, depth, f.owner, open, err, TRUE, f.inner, Nil, Nil, NoErr)

EvReturn(f, depth, val, err, fnVal, fnErr) ==
    Ev("Return", f.tx, 0, depth, f.owner, FALSE, err, TRUE, f.inner, val, fnVal, fnErr)

\* [mutant] the outermost frame taken for the running one.
Outermost == stack[1]

\* The frame whose fn is running: the innermost one.
Top == stack[Len(stack)]

IsOpen(h) == h # NoTx /\ txs[h].state = "open"

NoResult == [status |-> "none", val |-> Nil, err |-> NoErr]

\* ------------------------------------------------------------ sql.Tx, pool

\* pool.Begin(): a fresh open handle, or a failure when the backend refuses.
NewTransaction(beginOK) ==
    IF beginOK
    THEN [tx  |-> Len(txs) + 1,
          txs |-> Append(txs, [state |-> "open", writes |-> {}]),
          err |-> NoErr]
    ELSE [tx |-> NoTx, txs |-> txs, err |-> ErrBegin]

\* tx.Commit(): on a finalized handle it fails with ErrTxDone and changes
\* nothing; on an open one the handle is finalized either way, and the writes
\* become visible only when the backend accepts the commit (bk).
TxCommit(h, bk) ==
    IF ~IsOpen(h)
    THEN [txs |-> txs, table |-> table, err |-> ErrTxDone]
    ELSE IF bk
    THEN [txs   |-> [txs EXCEPT ![h] = [state |-> "committed", writes |-> {}]],
          table |-> table \cup txs[h].writes,
          err   |-> NoErr]
    ELSE [txs   |-> [txs EXCEPT ![h] = [state |-> "aborted", writes |-> {}]],
          table |-> table,
          err   |-> ErrBackend]

\* [mutant] a Rollback that also takes effect on a finalized handle: it marks
\* the transaction rolled back and empties the table.
TxRollbackUndoes(h) ==
    [txs   |-> [txs EXCEPT ![h] = [state |-> "rolledback", writes |-> {}]],
     table |-> IF IsOpen(h) THEN table ELSE {},
     err   |-> NoErr]

\* tx.Rollback(): on a finalized handle it fails with ErrTxDone and changes
\* nothing; on an open one the handle is finalized and the writes are
\* discarded.
TxRollback(h) ==
    IF ~IsOpen(h)
    THEN [txs |-> txs, table |-> table, err |-> ErrTxDone]
    ELSE [txs   |-> [txs EXCEPT ![h] = [state |-> "rolledback", writes |-> {}]],
          table |-> table,
          err   |-> NoErr]

\* ---------------------------------------------------------------- Adapter

\* [mutant] prepareStatement that always prepares on the pool.
prepareStatementOnPool(ctx) == [on |-> NoTx, err |-> NoErr]

\* [mutant] a prepareStatement that succeeds on a finalized handle too.
prepareStatementUnchecked(ctx) == [on |-> ctx, err |-> NoErr]

\* prepareStatement: on the handle the context carries, else on the pool.
\* Preparing on a finalized handle fails with ErrTxDone.
prepareStatement(ctx) ==
    IF ctx # NoTx
    THEN [on |-> ctx,  err |-> IF IsOpen(ctx) THEN NoErr ELSE ErrTxDone]
    ELSE [on |-> NoTx, err |-> NoErr]

\* Query of the insert statement k, which takes no parameters.  valid tells
\* whether the backend accepts the statement.  The row is written inside the
\* transaction the statement was prepared on, or straight into the table when
\* it was prepared on the pool.
Query(ctx, k, valid) ==
    LET st == prepareStatement(ctx) IN
    IF st.err # NoErr
    THEN [txs |-> txs, table |-> table, on |-> st.on, val |-> Nil, err |-> st.err]
    ELSE IF ~valid
    THEN [txs |-> txs, table |-> table, on |-> st.on, val |-> Nil, err |-> ErrExec(k)]
    ELSE IF st.on # NoTx
    THEN [txs   |-> [txs EXCEPT ![st.on].writes = @ \cup {k}],
          table |-> table, on |-> st.on, val |-> k, err |-> NoErr]
    ELSE [txs |-> txs, table |-> table \cup {k}, on |-> st.on, val |-> k, err |-> NoErr]

\* ------------------------------------------------------------- query text
\* A text is a sequence of characters (one-character strings).

LowerCase == <<"a", "b", "c", "d", "e", "f", "g", "h", "i", "j", "k", "l", "m",
               "n", "o", "p", "q", "r", "s", "t", "u", "v", "w", "x", "y", "z">>
UpperCase == <<"A", "B", "C", "D", "E", "F", "G", "H", "I", "J", "K", "L", "M",
               "N", "O", "P", "Q", "R", "S", "T", "U", "V", "W", "X", "Y", "Z">>
Digits == {"0", "1", "2", "3", "4", "5", "6", "7", "8", "9"}

Range(f) == {f[i] : i \in DOMAIN f}

\* The regular expression class \w.
WordChars == Range(LowerCase) \cup Range(UpperCase) \cup Digits \cup {"_"}

IsWord(c) == c \in WordChars

\* unicode.IsSpace, over the characters of the model.
IsSpace(c) == c \in {" ", "\t", "\n", "\r"}

ToLowerChar(c) ==
    IF c \in Range(UpperCase)
    THEN LowerCase[CHOOSE i \in DOMAIN UpperCase : UpperCase[i] = c]
    ELSE c

\* strings.ToLower
ToLower(s) == [i \in 1 .. Len(s) |-> ToLowerChar(s[i])]

\* strings.TrimLeftFunc(s, unicode.IsSpace)
RECURSIVE TrimLeft(_)
TrimLeft(s) == IF s # <<>> /\ IsSpace(Head(s)) THEN TrimLeft(Tail(s)) ELSE s

\* strings.TrimRightFunc(s, unicode.IsSpace)
RECURSIVE TrimRight(_)
TrimRight(s) ==
    IF s # <<>> /\ IsSpace(s[Len(s)])
    THEN TrimRight(SubSeq(s, 1, Len(s) - 1))
    ELSE s

\* [mutant] a TrimSpace that leaves the trailing white space.
TrimSpaceKeepsTail(s) == TrimLeft(s)

\* strings.TrimSpace: s without its leading and trailing white space.
TrimSpace(s) == TrimRight(TrimLeft(s))

\* strings.TrimPrefix(t, p), p one character.
TrimPrefix(t, p) == IF Len(t) >= 1 /\ t[1] = p THEN Tail(t) ELSE t

\* The named-parameter marker of the MySQL adapter.
pqPrefix == "?"

\* The last character of the longest run of \w characters that starts at i.
RECURSIVE WordEnd(_, _)
WordEnd(s, i) == IF i < Len(s) /\ IsWord(s[i + 1]) THEN WordEnd(s, i + 1) ELSE i

\* Where the match of  \?\w+  that starts at i ends, or 0 when none starts
\* there: the marker followed by at least one \w character, taken greedily.
MatchEnd(s, i) ==
    IF s[i] = pqPrefix /\ i < Len(s) /\ IsWord(s[i + 1])
    THEN WordEnd(s, i + 1)
    ELSE 0

\* exp.FindAllString(s, -1) from position i on: the matches, left to right,
\* none overlapping another.
RECURSIVE FindAllString(_, _)
FindAllString(s, i) ==
    IF i > Len(s) THEN <<>>
    ELSE LET e == MatchEnd(s, i) IN
         IF e # 0
         THEN <<SubSeq(s, i, e)>> \o FindAllString(s, e + 1)
         ELSE FindAllString(s, i + 1)

\* exp.ReplaceAllString(s, "?") from position i on: every match replaced by
\* the placeholder, every other character kept.
RECURSIVE ReplaceAllString(_, _)
ReplaceAllString(s, i) ==
    IF i > Len(s) THEN <<>>
    ELSE LET e == MatchEnd(s, i) IN
         IF e # 0
         THEN <<"?">> \o ReplaceAllString(s, e + 1)
         ELSE <<s[i]>> \o ReplaceAllString(s, i + 1)

\* convertQuery: the trimmed text with every named parameter replaced by a
\* placeholder, and the names in the order they occur.
convertQuery(query) ==
    LET q     == TrimSpace(query)
        found == FindAllString(q, 1)
    IN
    [query |-> ReplaceAllString(q, 1),
     names |-> [i \in 1 .. Len(found) |-> TrimPrefix(found[i], pqPrefix)]]

\* [mutant] a binder that binds every name once, at its first position.
reorderParametersDistinct(params, names) ==
    LET firsts == {i \in 1 .. Len(names) : \A j \in 1 .. i - 1 : names[j] # names[i]}
        missing == {i \in 1 .. Len(names) : names[i] \notin DOMAIN params}
        RECURSIVE Pick(_)
        Pick(i) == IF i > Len(names) THEN <<>>
                   ELSE IF i \in firsts THEN <<params[names[i]]>> \o Pick(i + 1)
                   ELSE Pick(i + 1)
    IN
    IF missing # {}
    THEN [vals |-> <<>>, err |-> ErrMissing(CHOOSE i \in missing : \A j \in missing : i <= j)]
    ELSE [vals |-> Pick(1), err |-> NoErr]

\* [mutant] a binder that goes through all the names and reports the last
\* one the mapping has no value for.
reorderParametersLastMissing(params, names) ==
    LET missing == {i \in 1 .. Len(names) : names[i] \notin DOMAIN params} IN
    IF missing # {}
    THEN [vals |-> <<>>, err |-> ErrMissing(CHOOSE i \in missing : \A j \in missing : j <= i)]
    ELSE [vals |-> [i \in 1 .. Len(names) |-> params[names[i]]], err |-> NoErr]

\* reorderParameters: the values of the names, in the order of the names; the
\* failure names the first name the mapping has no value for.
reorderParameters(params, names) ==
    LET missing == {i \in 1 .. Len(names) : names[i] \notin DOMAIN params} IN
    IF missing # {}
    THEN [vals |-> <<>>, err |-> ErrMissing(CHOOSE i \in missing : \A j \in missing : i <= j)]
    ELSE [vals |-> [i \in 1 .. Len(names) |-> params[names[i]]], err |-> NoErr]

\* [mutant] a formatResultSet that stores each count under the other's key.
formatResultSetSwapped(lastID, affRows) ==
    <<[affected_rows |-> lastID, last_insert_id |-> affRows]>>

\* formatResultSet: the one-row result of a mutation.
formatResultSet(lastID, affRows) ==
    <<[affected_rows |-> affRows, last_insert_id |-> lastID]>>

\* ------------------------------------------------------------ QueryBulk

\* [mutant] a comparison that forgets to lower the case.
IsSelectCaseSensitive(q) == SubSeq(q, 1, 6) = <<"s", "e", "l", "e", "c", "t">>

\* line 103: the first six characters of the translated text, in lower case,
\* are "select".
IsSelect(q) == ToLower(SubSeq(q, 1, 6)) = <<"s", "e", "l", "e", "c", "t">>

\* What the backend does with one execution: out.ok tells whether it accepts
\* it, out.aff the affected count it reports.
NoOutcome == [ok |-> TRUE, aff |-> 1]
Outcomes == {[ok |-> TRUE, aff |-> 1], [ok |-> TRUE, aff |-> 2], [ok |-> FALSE, aff |-> 0]}

\* The state of a QueryBulk call before its loop: nothing executed, lastID
\* and affRows zero.
BulkStart(on) ==
    [txs |-> txs, table |-> table, on |-> on, execs |-> <<>>,
     lastID |-> 0, affRows |-> 0, err |-> NoErr]

\* [mutant] a loop body that keeps the affected count of the latest execution.
AccumulateLatest(st, id, aff) == [st EXCEPT !.lastID = id, !.affRows = aff]

\* lines 128-130: lastID is overwritten, affRows is added to.
Accumulate(st, id, aff) == [st EXCEPT !.lastID = id, !.affRows = @ + aff]

\* lines 117-130, one pass of the loop for the mapping pms: bind, execute on
\* the handle the statement was prepared on, accumulate.  The execution
\* writes the row named row; the identifier the backend reports is that name.
BulkStep(st, names, pms, out, row) ==
    LET r == reorderParameters(pms, names)
        e == [on |-> st.on, args |-> r.vals, row |-> row, ok |-> out.ok,
              aff |-> out.aff]
    IN
    IF r.err # NoErr THEN [st EXCEPT !.err = r.err]
    ELSE IF ~out.ok
    THEN [st EXCEPT !.execs = Append(@, e), !.err = ErrExec(row)]
    ELSE Accumulate(
           IF st.on # NoTx
           THEN [st EXCEPT !.execs = Append(@, e),
                           !.txs = [@ EXCEPT ![st.on].writes = @ \cup {row}]]
           ELSE [st EXCEPT !.execs = Append(@, e), !.table = @ \cup {row}],
           row, out.aff)

\* [mutant] a loop that goes on to the next mapping after a failure.
BulkStopsNever(st) == FALSE

\* lines 118-125: a failure of the bind or of the execution ends the call.
BulkStops(st) == st.err # NoErr

\* lines 116-131: the loop over the mappings, from the i-th on.  first is
\* the number of executions made before the call.
RECURSIVE BulkLoop(_, _, _, _, _, _)
BulkLoop(st, names, params, outs, first, i) ==
    IF i > Len(params) \/ BulkStops(st) THEN st
    ELSE BulkLoop(BulkStep(st, names, params[i], outs[i], first + i),
                  names, params, outs, first, i + 1)

\* What a call of Query or QueryBulk did and returned.
\*   panic     the call ended in a run-time panic instead of returning
\*   prepared  a statement was prepared, on the handle on
\*   execs     the executions that reached the backend, in order
\*   rows      the result set returned (<<>> for nil)
Outcome(t, tb, panic, prepared, on, execs, rows, err) ==
    [txs |-> t, table |-> tb, panic |-> panic, prepared |-> prepared, on |-> on,
     execs |-> execs, rows |-> rows, err |-> err]

\* [mutant] the summary of a call: nil when nothing was executed.
SummaryNilWhenEmpty(st) ==
    IF st.execs = <<>> THEN <<>> ELSE formatResultSet(st.lastID, st.affRows)

\* line 133: the summary row of the call.
Summary(st) == formatResultSet(st.lastID, st.affRows)

\* QueryBulk(ctx, query, params).  prepOK tells whether the backend accepts
\* to prepare the statement, outs[i] what it does with the i-th execution,
\* first is the number of executions made before the call.  Slicing six
\* characters off a shorter text panics.
QueryBulk(ctx, query, params, outs, prepOK, first) ==
    LET cq == convertQuery(query)
        ps == prepareStatement(ctx)
        st == BulkLoop(BulkStart(ps.on), cq.names, params, outs, first, 1)
    IN
    IF Len(cq.query) < 6
    THEN Outcome(txs, table, TRUE, FALSE, NoTx, <<>>, <<>>, NoErr)
    ELSE IF IsSelect(cq.query)
    THEN Outcome(txs, table, FALSE, FALSE, NoTx, <<>>, <<>>, ErrSelect)
    ELSE IF ps.err # NoErr
    THEN Outcome(txs, table, FALSE, FALSE, ps.on, <<>>, <<>>, ps.err)
    ELSE IF ~prepOK
    THEN Outcome(txs, table, FALSE, FALSE, ps.on, <<>>, <<>>, ErrPrepare)
    ELSE IF st.err # NoErr
    THEN Outcome(st.txs, st.table, FALSE, TRUE, ps.on, st.execs, <<>>, st.err)
    ELSE Outcome(st.txs, st.table, FALSE, TRUE, ps.on, st.execs, Summary(st), NoErr)

\* ------------------------------------------------------- Query with a text

\* What the backend does with the statement of one Query call: prep tells
\* whether it prepares it, run whether it runs it ("ok"), refuses it ("fail")
\* or runs it and then fails to hand over the result ("norm": rows.Scan,
\* result.LastInsertId or result.RowsAffected fails), aff the affected count
\* it reports.
Backend(prep, run, aff) == [prep |-> prep, run |-> run, aff |-> aff]

\* The first token of the text q: its characters up to the first white space.
RECURSIVE FirstToken(_)
FirstToken(q) ==
    IF q = <<>> \/ IsSpace(Head(q)) THEN <<>>
    ELSE <<ToLowerChar(Head(q))>> \o FirstToken(Tail(q))

\* The backend adds a row for an insert statement and hands out rows for a
\* select statement; any other statement touches no row and has no rows.
WritesRow(q) == FirstToken(q) = <<"i", "n", "s", "e", "r", "t">>
HasRows(q)   == FirstToken(q) = <<"s", "e", "l", "e", "c", "t">>

\* The rows a reader on the handle on sees: the committed ones and the writes
\* of its own open transaction.
Visible(t, tb, on) == tb \cup (IF on # NoTx THEN t[on].writes ELSE {})

\* prepareDataSet (lines 282-301): one map per row of the cursor, in the
\* order of the cursor, here by identifier.  content gives the values every
\* row was written with.
RECURSIVE prepareDataSet(_, _, _)
prepareDataSet(rows, content, k) ==
    IF k = 0 THEN <<>>
    ELSE prepareDataSet(rows, content, k - 1) \o
             (IF k \in rows THEN <<[id |-> k, vals |-> content[k]]>> ELSE <<>>)

\* What a call of Query did and returned: the fields of Outcome, and
\*   mode  "read" when the statement went through stmt.Query, "exec" when it
\*         went through stmt.Exec, "none" when it was never run
\*   ops   the calls made on the statement and on its cursor, in order
Did(t, tb, panic, prepared, on, execs, rows, err, mode, ops) ==
    [txs |-> t, table |-> tb, panic |-> panic, prepared |-> prepared, on |-> on,
     execs |-> execs, rows |-> rows, err |-> err, mode |-> mode, ops |-> ops]

\* [mutant] a Query that closes the statement on its successful way out only.
ClosedOnSuccess(d) ==
    IF d.err = NoErr /\ ~d.panic THEN [d EXCEPT !.ops = Append(@, "StmtClose")] ELSE d

\* line 73, defer stmt.Close(): whichever way the rest of the call ends, a
\* panic included, the statement is closed last.
Deferred(d) == [d EXCEPT !.ops = Append(@, "StmtClose")]

\* [mutant] a Query that goes on after a failed binding.
BindFailedIgnored(r) == FALSE

\* lines 65-67: the binding failed.
BindFailed(r) == r.err # NoErr

\* lines 76-83, the statement q run as a read on the handle on: stmt.Query,
\* then prepareDataSet, which closes the cursor on every way out.
RunRead(on, q, args, bk, k, content) ==
    LET e == [on |-> on, args |-> args, row |-> 0, ok |-> bk.run # "fail", aff |-> 0]
        seen == IF HasRows(q) THEN Visible(txs, table, on) ELSE {}
    IN
    IF bk.run = "fail"
    THEN Did(txs, table, FALSE, TRUE, on, <<e>>, <<>>, ErrExec(k), "read",
             <<"Prepare", "Query">>)
    ELSE IF bk.run = "norm" /\ seen # {}
    THEN Did(txs, table, FALSE, TRUE, on, <<e>>, <<>>, ErrBackend, "read",
             <<"Prepare", "Query", "RowsClose">>)
    ELSE Did(txs, table, FALSE, TRUE, on, <<e>>, prepareDataSet(seen, content, k),
             NoErr, "read", <<"Prepare", "Query", "RowsClose">>)

\* lines 86-91, the statement q run as a mutation on the handle on:
\* stmt.Exec, then prepareResultSet.  An insert writes the row named k, and k
\* is the identifier the backend reports.
RunExec(on, q, args, bk, k) ==
    LET e  == [on |-> on, args |-> args, row |-> k, ok |-> bk.run # "fail",
               aff |-> bk.aff]
        t2 == IF WritesRow(q) /\ on # NoTx
              THEN [txs EXCEPT ![on].writes = @ \cup {k}] ELSE txs
        b2 == IF WritesRow(q) /\ on = NoTx THEN table \cup {k} ELSE table
    IN
    IF bk.run = "fail"
    THEN Did(txs, table, FALSE, TRUE, on, <<e>>, <<>>, ErrExec(k), "exec",
             <<"Prepare", "Exec">>)
    ELSE IF bk.run = "norm"
    THEN Did(t2, b2, FALSE, TRUE, on, <<e>>, <<>>, ErrBackend, "exec",
             <<"Prepare", "Exec">>)
    ELSE Did(t2, b2, FALSE, TRUE, on, <<e>>,
             formatResultSet(IF WritesRow(q) THEN k ELSE 0, bk.aff), NoErr, "exec",
             <<"Prepare", "Exec">>)

\* Adapter.Query(ctx, query, params), lines 60-92.  bk is what the backend
\* does with the statement, k the number of the statement, content the
\* values of the rows written so far.  Slicing one character off the empty
\* text panics (line 76), after the statement was prepared.
AdapterQuery(ctx, query, params, bk, k, content) ==
    LET cq == convertQuery(query)
        r  == reorderParameters(params, cq.names)
        ps == prepareStatement(ctx)
    IN
    IF BindFailed(r)
    THEN Did(txs, table, FALSE, FALSE, NoTx, <<>>, <<>>, r.err, "none", <<>>)
    ELSE IF ps.err # NoErr
    THEN Did(txs, table, FALSE, FALSE, ps.on, <<>>, <<>>, ps.err, "none", <<>>)
    ELSE IF ~bk.prep
    THEN Did(txs, table, FALSE, FALSE, ps.on, <<>>, <<>>, ErrPrepare, "none", <<>>)
    ELSE Deferred(
           IF Len(cq.query) < 1
           THEN Did(txs, table, TRUE, TRUE, ps.on, <<>>, <<>>, NoErr, "none",
                    <<"Prepare">>)
           ELSE IF ToLower(SubSeq(cq.query, 1, 1)) = <<"s">>
           THEN RunRead(ps.on, cq.query, r.vals, bk, k, content)
           ELSE RunExec(ps.on, cq.query, r.vals, bk, k))

\* The calls QueryBulk makes on its statement, from what it did: lines
\* 107-111 and 123, the statement closed last by defer stmt.Close().
QueryBulkOps(q) ==
    IF ~q.prepared THEN <<>>
    ELSE <<"Prepare">> \o [i \in 1 .. Len(q.execs) |-> "Exec"] \o <<"StmtClose">>

\* [mutant] a translation that writes the trimmed text back through to the
\* caller's text.
ArgsAfterTrimmed(query, params) == [query |-> TrimSpace(query), params |-> params]

\* What the arguments the caller passed hold after a call of Query or
\* QueryBulk.  The text is a string, passed by value: convertQuery assigns to
\* its own copy (lines 215, 224).  The mapping and the sequence of mappings
\* are shared with the caller: reorderParameters only looks names up in the
\* mapping (line 237) and QueryBulk only ranges over the sequence (line 116).
ArgsAfter(query, params) == [query |-> query, params |-> params]

\* -------------------------------------------------------------- TxAdapter

\* [mutant] attachTx of an adapter that keeps the transaction in progress in
\* a field of its own and hands it to whoever asks next.
attachTxShared(ctx, beginOK) ==
    IF ctx # NoTx
    THEN [ctx |-> ctx, txs |-> txs, err |-> NoErr, began |-> FALSE, parent |-> ctx]
    ELSE IF \E h \in DOMAIN txs : txs[h].state = "open"
    THEN [ctx |-> CHOOSE h \in DOMAIN txs : txs[h].state = "open", txs |-> txs,
          err |-> NoErr, began |-> FALSE, parent |-> ctx]
    ELSE LET n == NewTransaction(beginOK) IN
         [ctx |-> n.tx, txs |-> n.txs, err |-> n.err, began |-> TRUE, parent |-> ctx]

\* [mutant] attachTx that begins a transaction whatever the context carries.
attachTxAlwaysBegins(ctx, beginOK) ==
    LET n == NewTransaction(beginOK) IN
    [ctx |-> n.tx, txs |-> n.txs, err |-> n.err, began |-> TRUE, parent |-> ctx]

\* [mutant] a WithValue that stores the handle in the context it was given.
WithValueInPlace(parent, tx) == [ctx |-> tx, parent |-> tx]

\* context.WithValue(parent, internal.TxKey, tx): a new context that carries
\* tx.  parent is the context the caller still holds, which is left as it was.
WithValue(parent, tx) == [ctx |-> tx, parent |-> parent]

\* [mutant] attachTx that hides a failure of Begin and hands back the context
\* it was given.
attachTxHidesFailure(ctx, beginOK) ==
    IF ctx # NoTx
    THEN [ctx |-> ctx, txs |-> txs, err |-> NoErr, began |-> FALSE, parent |-> ctx]
    ELSE LET n == NewTransaction(beginOK) IN
         [ctx |-> n.tx, txs |-> n.txs, err |-> NoErr, began |-> TRUE, parent |-> ctx]

\* attachTx: reuse the handle the context carries, else begin a transaction
\* and derive a context that carries it.  parent is what the context passed in
\* carries afterwards.
attachTx(ctx, beginOK) ==
    IF ctx # NoTx
    THEN [ctx |-> ctx, txs |-> txs, err |-> NoErr, began |-> FALSE, parent |-> ctx]
    ELSE LET n == NewTransaction(beginOK)
             w == WithValue(ctx, n.tx)
         IN
         IF n.err # NoErr
         THEN [ctx |-> NoTx, txs |-> n.txs, err |-> n.err, began |-> TRUE,
               parent |-> ctx]
         ELSE [ctx |-> w.ctx, txs |-> n.txs, err |-> NoErr, began |-> TRUE,
               parent |-> w.parent]

\* [mutant] a tail of Wrap that commits whatever fn returned.
ResolveAlwaysCommits(tx, res, err, bk) ==
    LET f == TxCommit(tx, bk) IN
    [txs |-> f.txs, table |-> f.table, op |-> "Commit", ferr |-> f.err,
     val |-> IF err # NoErr THEN Nil ELSE res, err |-> err]

\* [mutant] a tail of Wrap that returns fn's failure without rolling back.
ResolveSkipsRollback(tx, res, err, bk) ==
    IF err # NoErr
    THEN [txs |-> txs, table |-> table, op |-> "Rollback", ferr |-> NoErr,
          val |-> Nil, err |-> err]
    ELSE LET f == TxCommit(tx, bk) IN
         [txs |-> f.txs, table |-> f.table, op |-> "Commit", ferr |-> f.err,
          val |-> res, err |-> NoErr]

\* [mutant] a tail of Wrap that returns fn's value without committing.
ResolveSkipsCommit(tx, res, err, bk) ==
    IF err # NoErr
    THEN LET f == TxRollback(tx) IN
         [txs |-> f.txs, table |-> f.table, op |-> "Rollback", ferr |-> f.err,
          val |-> Nil, err |-> err]
    ELSE [txs |-> txs, table |-> table, op |-> "Skip", ferr |-> NoErr,
          val |-> res, err |-> NoErr]

\* [mutant] a tail of Wrap that hands back the value fn returned next to its
\* failure.
ResolveKeepsValue(tx, res, err, bk) ==
    IF err # NoErr
    THEN LET f == TxRollback(tx) IN
         [txs |-> f.txs, table |-> f.table, op |-> "Rollback", ferr |-> f.err,
          val |-> res, err |-> err]
    ELSE LET f == TxCommit(tx, bk) IN
         [txs |-> f.txs, table |-> f.table, op |-> "Commit", ferr |-> f.err,
          val |-> res, err |-> NoErr]

\* [mutant] a tail of Wrap that returns the failure of Commit or Rollback.
ResolveSurfacesOutcome(tx, res, err, bk) ==
    IF err # NoErr
    THEN LET f == TxRollback(tx) IN
         [txs |-> f.txs, table |-> f.table, op |-> "Rollback", ferr |-> f.err,
          val |-> Nil, err |-> IF f.err # NoErr THEN f.err ELSE err]
    ELSE LET f == TxCommit(tx, bk) IN
         [txs |-> f.txs, table |-> f.table, op |-> "Commit", ferr |-> f.err,
          val |-> IF f.err # NoErr THEN Nil ELSE res, err |-> f.err]

\* [mutant] a tail of Wrap with the two branches swapped: commit on failure,
\* roll back on success.
ResolveSwapped(tx, res, err, bk) ==
    IF err # NoErr
    THEN LET f == TxCommit(tx, bk) IN
         [txs |-> f.txs, table |-> f.table, op |-> "Commit", ferr |-> f.err,
          val |-> Nil, err |-> err]
    ELSE LET f == TxRollback(tx) IN
         [txs |-> f.txs, table |-> f.table, op |-> "Rollback", ferr |-> f.err,
          val |-> res, err |-> NoErr]

\* The tail of Wrap, after fn returned (res, err) in a frame bound to tx:
\* roll back on failure, commit on success, never look at the outcome.
Resolve(tx, res, err, bk) ==
    IF err # NoErr
    THEN LET f == TxRollback(tx) IN
         [txs |-> f.txs, table |-> f.table, op |-> "Rollback", ferr |-> f.err,
          val |-> Nil, err |-> err]
    ELSE LET f == TxCommit(tx, bk) IN
         [txs |-> f.txs, table |-> f.table, op |-> "Commit", ferr |-> f.err,
          val |-> res, err |-> NoErr]

\* The call of Query or QueryBulk the program made (none yet).
\*   wrap    the top-level Wrap whose fn made the call, 0 when made outside
\*   ctx     the context passed to the call
\*   out     what the call did and returned
\*   before, txsBefore  the table and the transactions when the call was made
NoCall ==
    [op |-> "none", wrap |-> 0, ctx |-> NoTx, query |-> <<>>,
     params |-> <<>>, outs |-> <<>>, before |-> {}, txsBefore |-> <<>>,
     out |-> Outcome(<<>>, {}, FALSE, FALSE, NoTx, <<>>, <<>>, NoErr)]

\* The select that followed the call of SpecQuery (none yet).
NoFollow ==
    [op |-> "none", ctx |-> NoTx,
     out |-> Did(<<>>, {}, FALSE, FALSE, NoTx, <<>>, <<>>, NoErr, "none", <<>>)]

\* The call of Query or QueryBulk made in SpecQuery (none yet): the fields of
\* NoCall, and
\*   first   the number of statements run before the call
\*   bk      what the backend did with the statement of a Query
\*   after   what the arguments passed hold after the call
\*   follow  the select the program made after the call
NoExec ==
    [op |-> "none", wrap |-> 0, ctx |-> NoTx, query |-> <<>>, params |-> <<>>,
     outs |-> <<>>, bk |-> Backend(TRUE, "ok", 1), first |-> 0, before |-> {},
     txsBefore |-> <<>>,
     out |-> Did(<<>>, {}, FALSE, FALSE, NoTx, <<>>, <<>>, NoErr, "none", <<>>),
     after |-> [query |-> <<>>, params |-> <<>>], follow |-> NoFollow]

Init ==
    /\ table = {}
    /\ txs = <<>>
    /\ stack = <<>>
    /\ nstmt = 0
    /\ ncalls = 0
    /\ nframes = 0
    /\ tableAt = {}
    /\ log = <<>>
    /\ swallowed = FALSE
    /\ result = NoResult
    /\ baseCtx = NoTx
    /\ procs = <<>>
    /\ bulk = NoCall
    /\ conv = <<>>
    /\ bind = <<>>
    /\ exec = NoExec

\* Wrap is called, by the program with a context that carries no handle or by
\* the running fn with the context it was handed: attach, then invoke fn.
\* When attaching fails Wrap returns (nil, err) at once.
WrapCall(beginOK) ==
    LET top   == stack = <<>>
        ctxIn == IF top THEN NoTx ELSE Top.ctx
        a     == attachTx(ctxIn, beginOK)
        d     == Len(stack) + 1
        base  == IF top THEN <<>> ELSE log
        evs   == IF a.began THEN <<EvBegin(a.ctx, d, a.err)>> ELSE <<>>
    IN
    /\ IF top THEN ncalls < MaxCalls ELSE nframes < MaxFrames
    /\ txs' = a.txs
    /\ log' = base \o evs
    /\ ncalls' = IF top THEN ncalls + 1 ELSE ncalls
    /\ nframes' = IF top THEN 1 ELSE nframes + 1
    /\ tableAt' = IF top THEN table ELSE tableAt
    /\ swallowed' = IF top THEN FALSE ELSE (swallowed \/ Top.lastErr # NoErr)
    /\ IF a.err # NoErr
       THEN /\ stack' = stack
            /\ result' = [status |-> "returned", val |-> Nil, err |-> a.err]
       ELSE /\ stack' = Append(stack, [ctxIn |-> ctxIn, ctx |-> a.ctx, tx |-> a.ctx,
                                       owner |-> a.began, id |-> nframes',
                                       lastErr |-> NoErr, inner |-> FALSE])
            /\ result' = IF top THEN NoResult ELSE result
    /\ UNCHANGED <<table, nstmt, baseCtx, elsewhere>>

\* The running fn issues statement nstmt+1 through adapter.Query with the
\* context it was handed.  A statement prepared on a finalized handle never
\* reaches the backend, so only statements the backend would accept are drawn
\* there.
FnQuery(valid) ==
    /\ stack # <<>>
    /\ nstmt < MaxStmts
    /\ valid \/ IsOpen(Top.ctx)
    /\ LET k == nstmt + 1
           q == Query(Top.ctx, k, valid)
       IN
       /\ txs' = q.txs
       /\ table' = q.table
       /\ nstmt' = k
       /\ stack' = [stack EXCEPT ![Len(stack)].lastErr =
                        IF q.err # NoErr THEN q.err ELSE @]
       /\ swallowed' = (swallowed \/ Top.lastErr # NoErr)
       /\ log' = Append(log, EvStmt(k, q.on, Top, Len(stack), IsOpen(Top.ctx), q.err, valid))
    /\ UNCHANGED <<ncalls, nframes, tableAt, result, baseCtx, elsewhere>>

\* The value the fn of frame f returns: a non-nil value of its own, which no
\* other frame of the tree returns.  Wrap never inspects it.
FnValue(f) == f.id

\* The running fn returns (v, e): its value together with nil, a failure of its
\* own, or the failure it saw last.  Wrap resolves the transaction and returns
\* to its caller.  bk tells whether the backend accepts the commit; it is drawn
\* only when a Commit reaches the backend.
FnReturn(e, bk) ==
    /\ stack # <<>>
    /\ e \in {NoErr, ErrFn, Top.lastErr}
    /\ bk \/ (IsOpen(Top.tx) /\ e = NoErr)
    /\ LET d == Len(stack)
           v == FnValue(Top)
           r == Resolve(Top.tx, v, e, bk)
           rest == SubSeq(stack, 1, d - 1)
       IN
       /\ txs' = r.txs
       /\ table' = r.table
       /\ stack' = IF d = 1 THEN rest
                   ELSE [rest EXCEPT ![d - 1].lastErr = IF r.err # NoErr THEN r.err ELSE @,
                                     ![d - 1].inner = TRUE]
       /\ result' = IF d = 1
                    THEN [status |-> "returned", val |-> r.val, err |-> r.err]
                    ELSE result
       /\ swallowed' = (swallowed \/ (Top.lastErr # NoErr /\ e # Top.lastErr))
       /\ log' = log \o <<EvFinal(r.op, Top, d, IsOpen(Top.tx), r.ferr),
                           EvReturn(Top, d, r.val, r.err, v, e)>>
    /\ UNCHANGED <<nstmt, ncalls, nframes, tableAt, baseCtx, elsewhere>>

Next ==
    \/ \E beginOK \in BOOLEAN : WrapCall(beginOK)
    \/ \E valid \in BOOLEAN : FnQuery(valid)
    \/ \E e \in {NoErr, ErrFn, ErrTxDone, ErrBackend} \cup
                              {ErrExec(k) : k \in 1 .. MaxStmts},
          bk \in BOOLEAN : FnReturn(e, bk)

Spec == Init /\ [][Next]_vars

\* ------------------------------------------------------- reading the log

LogIdx  == 1 .. Len(log)
Begins  == {i \in LogIdx : log[i].op = "Begin"}
Stmts   == {i \in LogIdx : log[i].op = "Stmt"}
Finals  == {i \in LogIdx : log[i].op \in {"Commit", "Rollback"}}
Commits == {i \in LogIdx : log[i].op = "Commit"}
Rollbacks == {i \in LogIdx : log[i].op = "Rollback"}
Returns == {i \in LogIdx : log[i].op = "Return"}

\* The top-level Wrap has returned, and it had begun its transaction.
TreeDone == stack = <<>> /\ result.status = "returned" /\ Returns # {}

\* The Return entry of a frame that ran at depth d (the only one, when a single
\* frame ran there: depth 1 always, depth 2 in a tree of two frames).
ReturnAt(d) == CHOOSE i \in Returns : log[i].depth = d

\* A Commit reached the backend on an open handle and the backend refused it.
BackendCommitFailed == \E i \in Commits : log[i].open /\ log[i].err # NoErr

\* ------------------------------------------------------------------ C1

\* C1 (as claimed): a Wrap frame that found the handle in its context issues
\* neither Commit nor Rollback, so a finished tree of nested Wrap calls has
\* issued exactly one commit/rollback call, whatever its depth.
C1_OnlyOwnerFinalizes ==
    /\ \A i \in Finals : log[i].owner
    /\ TreeDone => Cardinality(Finals) = 1

\* ------------------------------------------------------------------ C2

\* C2: in every tree of nested Wrap calls Begin is called exactly once, by the
\* outermost frame; every inner frame reuses that handle and hands its fn the
\* very context it received; every statement and every Commit/Rollback of
\* the tree is issued on that one handle.
C2_OneBeginOneHandle ==
    /\ Cardinality(Begins) = (IF ncalls = 0 THEN 0 ELSE 1)
    /\ \A i \in Begins : log[i].depth = 1
    /\ \A i \in LogIdx \ Begins :
           /\ Begins # {}
           /\ \A b \in Begins : log[i].tx = log[b].tx
    /\ \A i \in 1 .. Len(stack) :
           /\ stack[i].tx = stack[1].tx
           /\ stack[i].ctx = stack[i].tx
           /\ stack[i].owner <=> (i = 1)
           /\ i > 1 => stack[i].ctx = stack[i].ctxIn
           /\ \A b \in Begins : stack[i].tx = log[b].tx

\* Three frames are nested and the innermost has executed a statement.
C2_Witness ==
    /\ Len(stack) = 3
    /\ \E i \in Stmts : log[i].depth = 3 /\ log[i].err = NoErr

\* ------------------------------------------------------------------ C3

\* The rows of the statements the tree issued.
IssuedRows == {log[i].stmt : i \in Stmts}

\* The rows of the statements the tree executed successfully.
ExecutedRows == {log[i].stmt : i \in {j \in Stmts : log[j].err = NoErr}}

\* Every statement the tree issued is one the backend accepts, and no fn
\* raised a failure of its own.
AllInputsGood ==
    /\ \A i \in Stmts : log[i].valid
    /\ \A i \in Returns : log[i].fnErr # ErrFn

\* C3 (as claimed): in a nested Wrap whose statements and fns all succeed
\* (and whose commit the backend accepts), once the outer Wrap has returned
\* every mutation of every frame is visible, those f1 issues after the inner
\* Wrap returned included, and the outer Wrap reports success with f1's value.
C3_NestedSuccessCommitsAll ==
    (TreeDone /\ nframes >= 2 /\ AllInputsGood /\ ~BackendCommitFailed)
        => /\ result.err = NoErr
           /\ result.val = log[ReturnAt(1)].fnVal
           /\ IssuedRows \subseteq table

\* ------------------------------------------------------------------ C4

\* Some statement of the tree failed and the top-level Wrap returned its
\* failure, no fn on the way having swallowed a failure.
FailurePropagated ==
    /\ TreeDone
    /\ ~swallowed
    /\ \E i \in Stmts : log[i].err # NoErr /\ result.err = log[i].err

\* C4 (as claimed): when a statement fails anywhere in the tree and every
\* enclosing fn returns the failure, nothing the tree executed is committed
\* once the outermost Wrap has returned.
C4_FailureRollsBackAll ==
    FailurePropagated => table = tableAt

\* ------------------------------------------------------------------ C5

\* Two-level nesting, one inner Wrap: statement s of f2 failed, f2 returned
\* that failure and so did f1.
InnerStmtFailed(s) ==
    /\ TreeDone
    /\ nframes = 2
    /\ s \in Stmts
    /\ log[s].depth = 2
    /\ log[s].err # NoErr
    /\ log[ReturnAt(2)].fnErr = log[s].err
    /\ log[ReturnAt(1)].fnErr = log[s].err

\* C5: in the two-level nesting, when the statement of f2 fails and f1 returns
\* that failure, no mutation of f1 or f2 is visible after the outer Wrap
\* returns, and the outer Wrap returns the failure the statement raised.
C5_InnerFailureRollsBack ==
    \A s \in Stmts :
        InnerStmtFailed(s)
            => /\ table = tableAt
               /\ result.err = log[s].err
               /\ result.val = Nil

\* f1 executed a mutation, then f2's statement failed and the failure went up.
C5_Witness ==
    \E s \in Stmts :
        /\ InnerStmtFailed(s)
        /\ \E i \in Stmts : log[i].depth = 1 /\ log[i].err = NoErr /\ i < s

\* ------------------------------------------------------------------ C6

\* The fn of the inner frame that returned at r failed after the outer fn had
\* executed a mutation, and the outer fn returned success all the same.
InnerFailureSwallowed(r) ==
    /\ TreeDone
    /\ r \in Returns
    /\ log[r].depth >= 2
    /\ log[r].fnErr # NoErr
    /\ \E i \in Stmts : i < r /\ log[i].depth = 1 /\ log[i].err = NoErr
    /\ log[ReturnAt(1)].fnErr = NoErr

\* What C6 concludes: success with the outer fn's value, table unchanged.
SuccessButNothingCommitted ==
    /\ result.err = NoErr
    /\ result.val = log[ReturnAt(1)].fnVal
    /\ table = tableAt

SingleFailed(s) ==
    /\ TreeDone
    /\ nframes = 1
    /\ ~swallowed
    /\ s \in Stmts
    /\ log[s].err # NoErr
    /\ log[ReturnAt(1)].fnErr = log[s].err

\* C7: in a single Wrap whose fn returns the failure of a statement, Rollback
\* is issued on the open handle, Commit never, no statement executed before
\* the failure is visible, no statement follows the failing one, and Wrap
\* returns the failure.
C7_SingleFailureRollsBack ==
    \A s \in Stmts :
        SingleFailed(s)
            => /\ Commits = {}
               /\ Cardinality(Rollbacks) = 1
               /\ \A r \in Rollbacks : log[r].open /\ s < r
               /\ table = tableAt
               /\ ExecutedRows \cap table = {}
               /\ \A i \in Stmts : i <= s
               /\ result.err = log[s].err
               /\ result.val = Nil

\* A statement succeeded, the next one failed, fn returned the failure.
C7_Witness ==
    \E s \in Stmts : SingleFailed(s) /\ \E i \in Stmts : i < s /\ log[i].err = NoErr

\* ------------------------------------------------------------------ C8

\* A single Wrap, no nesting, whose fn returned success.
SingleSucceeded ==
    /\ TreeDone
    /\ nframes = 1
    /\ log[ReturnAt(1)].fnErr = NoErr

\* Commit was issued once, on the open handle, after every statement; Rollback
\* never; Wrap returned fn's value and no failure.
CommittedOnceAndReturned ==
    /\ Cardinality(Commits) = 1
    /\ \A c \in Commits : log[c].open /\ \A i \in Stmts : i < c
    /\ Rollbacks = {}
    /\ result.err = NoErr
    /\ result.val = log[ReturnAt(1)].fnVal

\* C8 (as claimed): in a single Wrap whose fn succeeds, Commit is issued
\* exactly once after fn returns, Rollback never, every mutation fn executed
\* is visible after Wrap returns, and Wrap returns fn's value and no failure.
C8_SingleSuccessCommits ==
    SingleSucceeded => (CommittedOnceAndReturned /\ ExecutedRows \subseteq table)

\* C8 (amended): the same, the mutations being visible when the backend
\* accepted the Commit call.
C8_SingleSuccessCommitsIfAccepted ==
    SingleSucceeded
        => /\ CommittedOnceAndReturned
           /\ ~BackendCommitFailed => ExecutedRows \subseteq table

\* A single Wrap executed two mutations and its commit was accepted.
C8_Witness ==
    /\ SingleSucceeded
    /\ ~BackendCommitFailed
    /\ Cardinality(ExecutedRows) = 2

\* ------------------------------------------------------------------ C9

\* C9: at every depth, in the frame that began the transaction as in the
\* others, Wrap returns the failure its fn returned together with nil, and
\* returns fn's value when fn returned no failure.
C9_ReturnsWhatFnReturned ==
    \A r \in Returns :
        /\ log[r].err = log[r].fnErr
        /\ log[r].val = IF log[r].fnErr # NoErr THEN Nil ELSE log[r].fnVal

\* An inner frame's fn returned a value next to a failure, and the frame that
\* began the transaction returned a value and no failure.
C9_Witness ==
    /\ \E r \in Returns :
           ~log[r].owner /\ log[r].fnErr # NoErr /\ log[r].fnVal # Nil
    /\ \E r \in Returns :
           log[r].owner /\ log[r].fnErr = NoErr /\ log[r].val # Nil

\* ----------------------------------------------------------------- C10

\* The Commit or Rollback call a frame made just before it returned at r.
FinalOf(r) == log[r - 1]

\* C10: what Commit or Rollback reports never shows in what Wrap returns: a
\* Wrap that reached its fn returns a failure exactly when fn returned one,
\* and a Wrap whose Commit failed, in the backend or on a finalized handle,
\* returns fn's value and no failure.
C10_FinalizeOutcomeIgnored ==
    \A r \in Returns :
        /\ FinalOf(r).op \in {"Commit", "Rollback"}
        /\ (log[r].err # NoErr) <=> (log[r].fnErr # NoErr)
        /\ (FinalOf(r).op = "Commit" /\ FinalOf(r).err # NoErr)
               => (log[r].err = NoErr /\ log[r].val = log[r].fnVal)
        /\ (FinalOf(r).op = "Rollback" /\ FinalOf(r).err # NoErr)
               => (log[r].err = log[r].fnErr /\ log[r].val = Nil)

\* One Commit failed in the backend, another on the finalized handle, and a
\* Rollback failed on the finalized handle.
C10_Witness ==
    /\ \E r \in Returns : FinalOf(r).op = "Commit" /\ FinalOf(r).err = ErrBackend
    /\ \E r \in Returns : FinalOf(r).op = "Commit" /\ FinalOf(r).err = ErrTxDone
    /\ \E r \in Returns : FinalOf(r).op = "Rollback" /\ FinalOf(r).err # NoErr

\* ----------------------------------------------------------------- C30

\* C30: the frame that began the transaction issues its Commit or Rollback
\* only after its own fn has returned, hence after every nested Wrap frame
\* has returned: every statement of the tree and the Return of every nested
\* frame come before the call, all the nested invocations have returned by
\* then, and nothing comes after it but the owner's own Return.
C30_OwnerFinalizesLast ==
    \A i \in Finals :
        log[i].owner =>
            /\ stack = <<>>
            /\ i + 1 = Len(log)
            /\ log[i + 1].op = "Return" /\ log[i + 1].depth = log[i].depth
            /\ \A s \in Stmts : s < i
            /\ \A r \in Returns : r < i => log[r].depth > log[i].depth
            /\ Cardinality({r \in Returns : r < i}) = nframes - 1

\* The owner committed after a nested frame had issued a statement and
\* returned and the owner's fn had issued another.
C30_Witness ==
    \E i \in Commits, r \in Returns, s1, s2 \in Stmts :
        /\ log[i].owner
        /\ s1 < r /\ r < s2 /\ s2 < i
        /\ log[s1].depth > log[i].depth /\ log[r].depth = log[s1].depth
        /\ log[s2].depth = log[i].depth

\* ----------------------------------------------------------------- C31

\* The first Commit or Rollback call of the tree: the one of the first frame
\* to return.
FirstFinal == CHOOSE i \in Finals : \A j \in Finals : i <= j

\* The rows the tree had executed when that call was made.
RowsAtFirstFinal ==
    {log[s].stmt : s \in {t \in Stmts : t < FirstFinal /\ log[t].err = NoErr}}

\* The first call is made by the first frame to return, before any Wrap of
\* the tree has returned; it finds the handle open, and is a Commit exactly
\* when the fn of that frame succeeded.  Every later call of the tree finds
\* the handle finalized and fails with ErrTxDone.
FirstReturnCloses ==
    /\ FirstFinal + 1 \in Returns
    /\ \A r \in Returns : FirstFinal < r
    /\ log[FirstFinal].open
    /\ (log[FirstFinal].op = "Commit") <=> (log[FirstFinal + 1].fnErr = NoErr)
    /\ \A j \in Finals :
           j # FirstFinal => (~log[j].open /\ log[j].err = ErrTxDone)

\* C31 (as claimed): in a tree of Wrap calls that share one handle, the first
\* frame to return closes the transaction, committed if its fn succeeded and
\* rolled back if it failed; every Commit or Rollback an enclosing frame
\* issues afterwards finds it closed and changes neither that outcome nor the
\* stored data.
C31_FirstReturnDecides ==
    Finals # {} =>
        /\ FirstReturnCloses
        /\ txs[log[FirstFinal].tx].state =
               (IF log[FirstFinal].op = "Commit" THEN "committed" ELSE "rolledback")
        /\ table = tableAt \cup (IF log[FirstFinal].op = "Commit"
                                 THEN RowsAtFirstFinal ELSE {})

\* C31 (amended): the same, the transaction being committed when the backend
\* accepts the Commit of the first frame to return; when the backend refuses
\* it the transaction is closed all the same and nothing of it is stored.
C31_FirstReturnDecidesIfAccepted ==
    Finals # {} =>
        /\ FirstReturnCloses
        /\ txs[log[FirstFinal].tx].state =
               (IF log[FirstFinal].op = "Rollback" THEN "rolledback"
                ELSE IF log[FirstFinal].err = NoErr THEN "committed"
                ELSE "aborted")
        /\ table = tableAt \cup
               (IF log[FirstFinal].op = "Commit" /\ log[FirstFinal].err = NoErr
                THEN RowsAtFirstFinal ELSE {})

\* An inner frame committed a row; its caller then saw its own statement
\* fail, returned that failure, and its Rollback found the handle finalized:
\* the row stays.
C31_Witness ==
    /\ TreeDone /\ Cardinality(Finals) >= 2
    /\ log[FirstFinal].op = "Commit" /\ log[FirstFinal].err = NoErr
    /\ log[FirstFinal].depth > 1
    /\ RowsAtFirstFinal # {} /\ RowsAtFirstFinal \subseteq table
    /\ \E j \in Rollbacks : j > FirstFinal /\ log[j].err = ErrTxDone
    /\ \E s \in Stmts : s > FirstFinal /\ log[s].err = ErrTxDone

\* An inner frame failed and rolled back; its caller swallowed the failure
\* and its Commit found the handle finalized: nothing is stored.
C31_RollbackThenCommit ==
    /\ TreeDone /\ log[FirstFinal].op = "Rollback" /\ RowsAtFirstFinal # {}
    /\ \E j \in Commits : j > FirstFinal /\ log[j].err = ErrTxDone
    /\ table = tableAt

\* ----------------------------------------------------------------- C32

\* C32: once a nested Wrap has returned to a fn, with success or failure,
\* every statement that fn issues with its own context is prepared on the
\* shared handle, finds it finalized and fails with ErrTxDone; its row is
\* neither in the table nor among the writes of any transaction.
C32_StatementAfterNestedFails ==
    \A s \in Stmts :
        log[s].after =>
            /\ log[s].tx # NoTx /\ ~log[s].open
            /\ \E r \in Returns : r < s /\ log[r].depth = log[s].depth + 1
            /\ log[s].err = ErrTxDone
            /\ log[s].stmt \notin table
            /\ \A h \in DOMAIN txs : log[s].stmt \notin txs[h].writes

\* A nested Wrap committed a row and returned success; the statement its
\* caller issued next, one the backend would accept, failed.
C32_Witness ==
    \E s \in Stmts, r \in Returns :
        /\ log[s].after /\ log[s].valid /\ log[s].err = ErrTxDone
        /\ r < s /\ log[r].depth = log[s].depth + 1 /\ log[r].err = NoErr
        /\ FinalOf(r).op = "Commit" /\ FinalOf(r).err = NoErr
        /\ table # tableAt

\* The same after a nested Wrap that returned a failure.
C32_AfterNestedFailure ==
    \E s \in Stmts, r \in Returns :
        /\ log[s].after /\ log[s].err = ErrTxDone
        /\ r < s /\ log[r].depth = log[s].depth + 1 /\ log[r].err # NoErr

\* ----------------------------------------------------------------- C33

\* C33: fn is only ever invoked by a frame that holds a handle.  When Begin
\* fails in a Wrap whose context carries none, Wrap returns that failure and
\* no value; no fn is invoked, no statement is issued, neither Commit nor
\* Rollback is called, no transaction is left open and the table is as it
\* was.
C33_BeginFailureReturned ==
    /\ \A i \in DOMAIN stack : stack[i].tx # NoTx
    /\ \A b \in Begins :
           (log[b].tx = NoTx \/ log[b].err # NoErr) =>
               /\ log[b].tx = NoTx /\ log[b].err = ErrBegin
               /\ log = <<log[b]>>
               /\ stack = <<>>
               /\ result = [status |-> "returned", val |-> Nil, err |-> ErrBegin]
               /\ \A h \in DOMAIN txs : ~IsOpen(h)
               /\ table = tableAt

\* A top-level Wrap was called and Begin failed.
C33_Witness ==
    /\ ncalls >= 1 /\ stack = <<>>
    /\ Begins = {1} /\ log[1].err = ErrBegin
    /\ result.status = "returned" /\ result.err = ErrBegin /\ result.val = Nil
    /\ Finals = {} /\ Stmts = {} /\ Returns = {}

\* ================================================================ SpecSeq
\* One goroutine calls Wrap several times, one call after the other is done,
\* each time with the same base context (TestMultipleTxSuccess,
\* TestMultipleTxFail).  Each fn issues statements and returns; it nests no
\* further Wrap.  log is kept over all the calls.

\* The program calls Wrap with its base context, unless it has made max such
\* calls already.
TopWrapCall(beginOK, max) ==
    LET a   == attachTx(baseCtx, beginOK)
        evs == IF a.began THEN <<EvBegin(a.ctx, 1, a.err)>> ELSE <<>>
    IN
    /\ stack = <<>>
    /\ ncalls < max
    /\ txs' = a.txs
    /\ baseCtx' = a.parent
    /\ log' = log \o evs
    /\ ncalls' = ncalls + 1
    /\ nframes' = 1
    /\ tableAt' = table
    /\ swallowed' = FALSE
    /\ IF a.err # NoErr
       THEN /\ stack' = stack
            /\ result' = [status |-> "returned", val |-> Nil, err |-> a.err]
       ELSE /\ stack' = <<[ctxIn |-> baseCtx, ctx |-> a.ctx, tx |-> a.ctx,
                           owner |-> a.began, id |-> ncalls', lastErr |-> NoErr,
                           inner |-> FALSE]>>
            /\ result' = NoResult
    /\ UNCHANGED <<table, nstmt, elsewhere>>

SeqWrapCall(beginOK) == TopWrapCall(beginOK, MaxSeqCalls)

SeqNext ==
    \/ \E beginOK \in BOOLEAN : SeqWrapCall(beginOK)
    \/ \E valid \in BOOLEAN : FnQuery(valid)
    \/ \E e \in {NoErr, ErrFn, ErrTxDone, ErrBackend} \cup
                              {ErrExec(k) : k \in 1 .. MaxStmts},
          bk \in BOOLEAN : FnReturn(e, bk)

SpecSeq == Init /\ [][SeqNext]_vars

\* ----------------------------------------------------------------- C11

\* The Begin entry of the call that made entry i.
BeginOf(i) == CHOOSE b \in Begins : b <= i /\ \A c \in Begins : c <= i => c <= b

\* The rows the statements of the call that made entry i wrote.
RowsOfCall(i) ==
    {log[s].stmt : s \in {t \in Stmts : BeginOf(t) = BeginOf(i) /\ log[t].err = NoErr}}

\* C11: Wrap leaves the context it was passed as it was, so the base context
\* never carries a handle.  Hence every top-level Wrap on it begins a
\* transaction of its own, distinct from all others; its statements, its
\* Commit or Rollback run on that handle, which is still open when the call
\* finalizes it; the rows of a call that committed are in the table whatever
\* the calls before and after it did, and the rows of a call that rolled back
\* are not.
C11_SequentialWrapsIndependent ==
    /\ baseCtx = NoTx
    /\ Cardinality(Begins) = ncalls
    /\ \A i, j \in Begins :
           (i # j /\ log[i].err = NoErr /\ log[j].err = NoErr)
               => log[i].tx # log[j].tx
    /\ \A i \in Stmts \cup Finals \cup Returns :
           /\ \E b \in Begins : b <= i
           /\ log[i].tx = log[BeginOf(i)].tx
    /\ \A i \in Finals :
           /\ log[i].owner /\ log[i].open
           /\ (log[i].op = "Commit") <=> (log[i + 1].fnErr = NoErr)
           /\ (log[i].op = "Commit" /\ log[i].err = NoErr)
                  => RowsOfCall(i) \subseteq table
           /\ log[i].op = "Rollback" => RowsOfCall(i) \cap table = {}

\* A call that wrote a row and rolled back was followed by a call that wrote
\* a row and committed it.
C11_Witness ==
    /\ stack = <<>>
    /\ \E i, j \in Finals :
           /\ i < j
           /\ log[i].op = "Rollback" /\ RowsOfCall(i) # {}
           /\ log[j].op = "Commit" /\ log[j].err = NoErr
           /\ RowsOfCall(j) # {} /\ RowsOfCall(j) \subseteq table
           /\ RowsOfCall(i) \cap table = {}

\* A call that wrote a row and committed it was followed by a call that wrote
\* a row and rolled back.
C11_CommitThenFail ==
    /\ stack = <<>>
    /\ \E i, j \in Finals :
           /\ i < j
           /\ log[i].op = "Commit" /\ log[i].err = NoErr /\ RowsOfCall(i) # {}
           /\ log[j].op = "Rollback" /\ RowsOfCall(j) # {}
           /\ RowsOfCall(i) \subseteq table

\* =============================================================== SpecBulk
\* One goroutine makes top-level Wrap calls and one call of Query or of
\* QueryBulk: with its base context or, from the fn of a Wrap, with the
\* context Wrap handed to fn.  A panic ends the program.

\* "insert ?a,?b", " SeLecT ?a" and "do 1".
InsertText == <<"i", "n", "s", "e", "r", "t", " ", "?", "a", ",", "?", "b">>
SelectText == <<" ", "S", "e", "L", "e", "c", "T", " ", "?", "a">>
ShortText  == <<"d", "o", " ", "1">>
BulkQueries == {InsertText, SelectText, ShortText}

\* Parameter mappings: two with a value for both names, one without b.
ParamMaps ==
    {[n \in {<<"a">>, <<"b">>} |-> IF n = <<"a">> THEN 1 ELSE 2],
     [n \in {<<"a">>, <<"b">>} |-> IF n = <<"a">> THEN 3 ELSE 4],
     [n \in {<<"a">>} |-> 5]}

\* The sequences of up to MaxMaps mappings (a nil sequence is the empty one).
ParamSeqs == UNION {[1 .. n -> ParamMaps] : n \in 0 .. MaxMaps}

\* What the backend may do with n executions of query: it accepts the first
\* m and may refuse the next one.  Nothing is drawn for an execution that is
\* never asked for.
BackendOutcomes(query, n, prepOK) ==
    IF prepOK /\ query = InsertText
    THEN {[i \in 1 .. n |-> IF i <= m THEN f[i] ELSE IF i = m + 1 THEN o ELSE NoOutcome] :
              <<m, f, o>> \in UNION {{m} \X [1 .. m -> {o \in Outcomes : o.ok}]
                                        \X {NoOutcome, [ok |-> FALSE, aff |-> 0]} :
                                    m \in 0 .. n}}
    ELSE {[i \in 1 .. n |-> NoOutcome]}

\* The context the program passes to the executor: the one Wrap handed to
\* the running fn, else the base context.
CallCtx == IF stack = <<>> THEN baseCtx ELSE Top.ctx

Running == ~bulk.out.panic

\* The failure the call returned is the last one the running fn saw.
Seen(err) ==
    IF stack = <<>> THEN stack
    ELSE [stack EXCEPT ![Len(stack)].lastErr = IF err # NoErr THEN err ELSE @]

\* The program calls QueryBulk.  What the backend does is drawn only for the
\* steps that reach the backend.
CallQueryBulk(query, params, outs, prepOK) ==
    LET q == QueryBulk(CallCtx, query, params, outs, prepOK, nstmt) IN
    /\ Running
    /\ bulk.op = "none"
    /\ Len(outs) = Len(params)
    /\ ~prepOK => q.err = ErrPrepare
    /\ \A i \in 1 .. Len(outs) : i > Len(q.execs) => outs[i] = NoOutcome
    /\ txs' = q.txs
    /\ table' = q.table
    /\ nstmt' = nstmt + Len(q.execs)
    /\ stack' = Seen(q.err)
    /\ bulk' = [op |-> "QueryBulk",
                wrap |-> IF stack = <<>> THEN 0 ELSE ncalls, ctx |-> CallCtx,
                query |-> query, params |-> params, outs |-> outs,
                before |-> table, txsBefore |-> txs, out |-> q]
    /\ UNCHANGED <<ncalls, nframes, tableAt, log, swallowed, result, baseCtx,
                   procs, conv, bind, exec>>

\* The program calls Query with the insert statement that takes no parameter.
CallQuery(valid) ==
    LET k == nstmt + 1
        q == Query(CallCtx, k, valid)
        p == prepareStatement(CallCtx)
        e == [on |-> q.on, args |-> <<>>, row |-> k, ok |-> valid, aff |-> 1]
    IN
    /\ Running
    /\ bulk.op = "none"
    /\ txs' = q.txs
    /\ table' = q.table
    /\ nstmt' = k
    /\ stack' = Seen(q.err)
    /\ bulk' = [op |-> "Query",
                wrap |-> IF stack = <<>> THEN 0 ELSE ncalls, ctx |-> CallCtx,
                query |-> <<>>, params |-> <<>>, outs |-> <<>>,
                before |-> table, txsBefore |-> txs,
                out |-> Outcome(q.txs, q.table, FALSE, p.err = NoErr, q.on,
                                IF p.err = NoErr THEN <<e>> ELSE <<>>,
                                IF q.err = NoErr THEN formatResultSet(q.val, 1)
                                ELSE <<>>,
                                q.err)]
    /\ UNCHANGED <<ncalls, nframes, tableAt, log, swallowed, result, baseCtx,
                   procs, conv, bind, exec>>

BulkWrapCall(beginOK) == Running /\ TopWrapCall(beginOK, MaxCalls)

BulkFnReturn(e, bk) == Running /\ FnReturn(e, bk)

BulkNext ==
    \/ \E beginOK \in BOOLEAN : BulkWrapCall(beginOK)
    \/ \E valid \in BOOLEAN : CallQuery(valid)
    \/ \E query \in BulkQueries, params \in ParamSeqs, prepOK \in BOOLEAN :
          \E outs \in BackendOutcomes(query, Len(params), prepOK) :
              CallQueryBulk(query, params, outs, prepOK)
    \/ \E e \in {NoErr, ErrFn} \cup (IF stack = <<>> THEN {} ELSE {Top.lastErr}),
          bk \in BOOLEAN : BulkFnReturn(e, bk)

SpecBulk == Init /\ [][BulkNext]_vars

\* ------------------------------------------------- reading the call record

IsBulk == bulk.op = "QueryBulk"

\* The translated text and the names of the call's query.
Translated == convertQuery(bulk.query)

\* The trimmed translated text t starts with select, in any letter case.
StartsWithSelect(t) ==
    /\ Len(t) >= Len(<<"s", "e", "l", "e", "c", "t">>)
    /\ \A i \in DOMAIN <<"s", "e", "l", "e", "c", "t">> :
           t[i] \in {<<"s", "e", "l", "e", "c", "t">>[i],
                     <<"S", "E", "L", "E", "C", "T">>[i]}

\* The rows the executions of the call wrote.
CallRows ==
    {bulk.out.execs[i].row : i \in {j \in DOMAIN bulk.out.execs : bulk.out.execs[j].ok}}

\* The values of the i-th mapping of the call, in the order of the names.
ArgsOf(i) ==
    [j \in 1 .. Len(Translated.names) |-> bulk.params[i][Translated.names[j]]]

\* The i-th mapping of the call lacks a value for some name of the query.
Lacks(i) == \E j \in 1 .. Len(Translated.names) :
                Translated.names[j] \notin DOMAIN bulk.params[i]

\* The executions 1..n of the call ran mappings 1..n, in that order, and the
\* backend accepted each of them.
RanInOrder(n) ==
    \A i \in 1 .. n :
        /\ bulk.out.execs[i].ok
        /\ bulk.out.execs[i].args = ArgsOf(i)
        /\ bulk.out.execs[i].aff = bulk.outs[i].aff
        /\ i > 1 => bulk.out.execs[i - 1].row < bulk.out.execs[i].row

RECURSIVE SumAff(_)
SumAff(es) == IF es = <<>> THEN 0 ELSE Head(es).aff + SumAff(Tail(es))

\* ----------------------------------------------------------------- C12

\* C12: the statement of a Query or QueryBulk call is prepared, and every
\* execution of it runs, on the handle the context carries, and on the pool
\* only when the context carries none.  With a context that carries a handle
\* the call leaves the table as it was and its rows are writes of that
\* transaction; with one that carries none the rows go to the table and no
\* transaction is written to.
C12_RunsOnCarriedHandle ==
    (bulk.op # "none" /\ ~bulk.out.panic) =>
        /\ bulk.out.prepared => bulk.out.on = bulk.ctx
        /\ \A i \in DOMAIN bulk.out.execs : bulk.out.execs[i].on = bulk.ctx
        /\ bulk.ctx # NoTx =>
               /\ bulk.out.table = bulk.before
               /\ CallRows \subseteq bulk.out.txs[bulk.ctx].writes
        /\ bulk.ctx = NoTx =>
               /\ bulk.out.txs = bulk.txsBefore
               /\ bulk.out.table = bulk.before \cup CallRows

\* A QueryBulk called with the context of a Wrap executed twice, and the
\* two rows are writes of the transaction.
C12_Witness ==
    /\ IsBulk /\ bulk.ctx # NoTx
    /\ Cardinality(CallRows) = MaxMaps
    /\ CallRows \subseteq bulk.out.txs[bulk.ctx].writes

\* A Query called with the base context wrote its row to the table.
C12_OnPool ==
    bulk.op = "Query" /\ bulk.ctx = NoTx /\ CallRows # {} /\ CallRows \subseteq table

\* ----------------------------------------------------------------- C14

\* C14: QueryBulk of a query whose trimmed translated text starts with
\* select, in any letter case, returns the select-not-allowed failure and no
\* rows whatever the mappings are, having prepared nothing, executed nothing
\* and changed nothing.
C14_BulkSelectRejected ==
    (IsBulk /\ StartsWithSelect(Translated.query)) =>
        /\ ~bulk.out.panic
        /\ bulk.out.err = ErrSelect
        /\ bulk.out.rows = <<>>
        /\ ~bulk.out.prepared
        /\ bulk.out.execs = <<>>
        /\ bulk.out.table = bulk.before
        /\ bulk.out.txs = bulk.txsBefore

\* QueryBulk was called with " SeLecT ?a" and MaxMaps mappings, inside a Wrap.
C14_Witness ==
    /\ IsBulk /\ bulk.query = SelectText /\ Len(bulk.params) = MaxMaps
    /\ bulk.ctx # NoTx
    /\ bulk.out.err = ErrSelect

\* QueryBulk was called with a select and no mappings.
C14_NilParams ==
    IsBulk /\ bulk.query = SelectText /\ bulk.params = <<>> /\ bulk.out.err = ErrSelect

\* ----------------------------------------------------------------- C15

\* C15: a QueryBulk over k >= 1 mappings that returns no failure executed
\* the statement k times, the i-th time with the values of the i-th mapping,
\* and returns one row: affected_rows is the sum of the k affected counts,
\* last_insert_id the identifier of the k-th execution.
C15_BulkSummary ==
    (IsBulk /\ ~bulk.out.panic /\ bulk.out.err = NoErr /\ Len(bulk.params) >= 1) =>
        /\ Len(bulk.out.execs) = Len(bulk.params)
        /\ RanInOrder(Len(bulk.params))
        /\ bulk.out.rows =
               <<[affected_rows |-> SumAff(bulk.out.execs),
                  last_insert_id |-> bulk.out.execs[Len(bulk.params)].row]>>

\* A QueryBulk over MaxMaps mappings, the first two different and with
\* different affected counts, succeeded.
C15_Witness ==
    /\ IsBulk /\ bulk.out.err = NoErr /\ ~bulk.out.panic
    /\ Len(bulk.params) = MaxMaps
    /\ Len(bulk.out.execs) = MaxMaps
    /\ bulk.params[1] # bulk.params[2]
    /\ bulk.out.execs[1].aff # bulk.out.execs[2].aff

\* ----------------------------------------------------------------- C16

\* The mappings of the call that cannot go through: a name is missing, or
\* the backend refuses the execution.
Failing == {i \in 1 .. Len(bulk.params) : Lacks(i) \/ ~bulk.outs[i].ok}

FirstFailing == CHOOSE i \in Failing : \A j \in Failing : i <= j

\* C16: when the i-th mapping is the first that fails, on bind or on
\* execution, QueryBulk has executed mappings 1..i-1, in order; after a bind
\* failure no execution of mapping i or of a later one was asked for, after
\* an execution failure none of a later one; the call returns the failure and
\* no row; and nothing is rolled back: with a context that carries no handle
\* the rows of mappings 1..i-1 are in the table and stay there, with one that
\* carries a handle the transaction is left open with those rows.
C16_BulkFailureStops ==
    (IsBulk /\ bulk.out.prepared /\ Failing # {}) =>
        LET i == FirstFailing IN
        /\ bulk.out.err # NoErr
        /\ bulk.out.rows = <<>>
        /\ RanInOrder(i - 1)
        /\ Lacks(i) => /\ Len(bulk.out.execs) = i - 1
                       /\ bulk.out.err.kind = "missing"
        /\ ~Lacks(i) => /\ Len(bulk.out.execs) = i
                        /\ ~bulk.out.execs[i].ok
                        /\ bulk.out.execs[i].args = ArgsOf(i)
                        /\ bulk.out.err = ErrExec(bulk.out.execs[i].row)
        /\ Cardinality(CallRows) = i - 1
        /\ bulk.ctx = NoTx =>
               /\ bulk.out.table = bulk.before \cup CallRows
               /\ CallRows \subseteq table
        /\ bulk.ctx # NoTx =>
               /\ bulk.out.txs[bulk.ctx].state = "open"
               /\ CallRows \subseteq bulk.out.txs[bulk.ctx].writes

\* A QueryBulk called with the base context failed on the bind of its last
\* mapping, the earlier ones having been executed and their rows applied.
C16_Witness ==
    /\ IsBulk /\ bulk.ctx = NoTx /\ bulk.out.prepared
    /\ Len(bulk.params) = MaxMaps
    /\ Failing # {} /\ FirstFailing = MaxMaps /\ Lacks(MaxMaps)
    /\ CallRows # {} /\ CallRows \subseteq table

\* A QueryBulk failed on the execution of a mapping that is not its last.
C16_ExecFailure ==
    /\ IsBulk /\ bulk.out.prepared
    /\ Failing # {} /\ FirstFailing < Len(bulk.params) /\ ~Lacks(FirstFailing)

\* ----------------------------------------------------------------- C17

\* The Wrap whose fn called QueryBulk has returned, the call had failed and
\* fn returned the failure of the call.
BulkFailureReturned ==
    /\ IsBulk /\ bulk.wrap # 0 /\ bulk.wrap = ncalls
    /\ stack = <<>> /\ result.status = "returned"
    /\ bulk.out.err # NoErr
    /\ result.err = bulk.out.err

\* C17: when QueryBulk, called with the context Wrap handed to fn, fails and
\* fn returns that failure, then once Wrap has returned the transaction is
\* rolled back and none of the rows the call wrote is in the table.
C17_BulkFailureRolledBack ==
    BulkFailureReturned =>
        /\ txs[bulk.ctx].state = "rolledback"
        /\ CallRows \cap table = {}

\* Such a call had executed a mapping before it failed.
C17_Witness == BulkFailureReturned /\ CallRows # {}

\* ----------------------------------------------------------------- C18

\* C18 (as claimed): QueryBulk of a statement that is no select with no
\* mapping executes nothing and returns, without failure, the one row with
\* affected_rows 0 and last_insert_id 0.
C18_EmptyBulkSucceeds ==
    (IsBulk /\ bulk.params = <<>> /\ ~StartsWithSelect(Translated.query)) =>
        /\ ~bulk.out.panic
        /\ bulk.out.err = NoErr
        /\ bulk.out.execs = <<>>
        /\ bulk.out.rows = <<[affected_rows |-> 0, last_insert_id |-> 0]>>

\* C18 (amended): it does so whenever its statement was prepared; when the
\* statement cannot be prepared it returns that failure, and it executes
\* nothing and changes nothing either way.
C18_EmptyBulkSucceedsIfPrepared ==
    (IsBulk /\ bulk.params = <<>> /\ ~StartsWithSelect(Translated.query)) =>
        /\ bulk.out.execs = <<>>
        /\ bulk.out.table = bulk.before
        /\ bulk.out.txs = bulk.txsBefore
        /\ bulk.out.prepared =>
               /\ ~bulk.out.panic
               /\ bulk.out.err = NoErr
               /\ bulk.out.rows = <<[affected_rows |-> 0, last_insert_id |-> 0]>>
        /\ (~bulk.out.prepared /\ ~bulk.out.panic) =>
               /\ bulk.out.err # NoErr
               /\ bulk.out.rows = <<>>

\* QueryBulk of the insert with no mapping was prepared and returned.
C18_Witness ==
    /\ IsBulk /\ bulk.params = <<>> /\ bulk.query = InsertText
    /\ bulk.out.prepared
    /\ bulk.out.rows = <<[affected_rows |-> 0, last_insert_id |-> 0]>>

\* =============================================================== SpecConc
\* Goroutines that each call Wrap once, with a context of their own that
\* carries no handle.  Each fn issues statements through Query and returns;
\* the steps of the goroutines interleave.  Begin, a statement, Commit and
\* Rollback are each one step of the backend.

Procs == 1 .. MaxProcs

\* One goroutine.
\*   pc       "idle" before it calls Wrap, "fn" while its fn runs, "done"
\*   base     the context it passes to Wrap
\*   ctx      the context Wrap handed to its fn
\*   tx       the handle Wrap holds (line 33)
\*   on       the handles its statements ran on
\*   rows     the rows its statements wrote
\*   lastErr  the last failure its fn saw
\*   final    the Commit or Rollback its Wrap issued, open telling whether
\*            the handle was open then
\*   ret      what its Wrap returned
Idle ==
    [pc |-> "idle", base |-> NoTx, ctx |-> NoTx, tx |-> NoTx, on |-> {},
     rows |-> {}, lastErr |-> NoErr,
     final |-> [op |-> "none", open |-> FALSE, err |-> NoErr],
     ret |-> [val |-> Nil, err |-> NoErr]]

ConcInit ==
    /\ table = {}
    /\ txs = <<>>
    /\ stack = <<>>
    /\ nstmt = 0
    /\ ncalls = 0
    /\ nframes = 0
    /\ tableAt = {}
    /\ log = <<>>
    /\ swallowed = FALSE
    /\ result = NoResult
    /\ baseCtx = NoTx
    /\ procs = [p \in Procs |-> Idle]
    /\ bulk = NoCall
    /\ conv = <<>>
    /\ bind = <<>>
    /\ exec = NoExec

\* What the goroutines leave alone.
single == <<stack, ncalls, nframes, tableAt, log, swallowed, result, baseCtx,
            bulk, conv, bind, exec>>

\* Goroutine p calls Wrap: attach, then invoke fn.
ConcWrapCall(p, beginOK) ==
    LET a == attachTx(procs[p].base, beginOK) IN
    /\ procs[p].pc = "idle"
    /\ txs' = a.txs
    /\ procs' = [procs EXCEPT ![p] =
                    IF a.err # NoErr
                    THEN [@ EXCEPT !.pc = "done", !.base = a.parent,
                                   !.ret = [val |-> Nil, err |-> a.err]]
                    ELSE [@ EXCEPT !.pc = "fn", !.base = a.parent, !.ctx = a.ctx,
                                   !.tx = a.ctx]]
    /\ UNCHANGED <<table, nstmt, single>>

\* The fn of goroutine p issues statement nstmt+1 with the context it was
\* handed.
ConcQuery(p, valid) ==
    LET k == nstmt + 1
        q == Query(procs[p].ctx, k, valid)
    IN
    /\ procs[p].pc = "fn"
    /\ nstmt < MaxStmts
    /\ txs' = q.txs
    /\ table' = q.table
    /\ nstmt' = k
    /\ procs' = [procs EXCEPT ![p] =
                    [@ EXCEPT !.on = @ \cup {q.on},
                              !.rows = IF q.err = NoErr THEN @ \cup {k} ELSE @,
                              !.lastErr = IF q.err # NoErr THEN q.err ELSE @]]
    /\ UNCHANGED single

\* The fn of goroutine p returns (p, e); Wrap resolves and returns.
ConcReturn(p, e, bk) ==
    LET r == Resolve(procs[p].tx, p, e, bk) IN
    /\ procs[p].pc = "fn"
    /\ e \in {NoErr, ErrFn, procs[p].lastErr}
    /\ bk \/ (IsOpen(procs[p].tx) /\ e = NoErr)
    /\ txs' = r.txs
    /\ table' = r.table
    /\ procs' = [procs EXCEPT ![p] =
                    [@ EXCEPT !.pc = "done",
                              !.final = [op |-> r.op, open |-> IsOpen(procs[p].tx),
                                         err |-> r.ferr],
                              !.ret = [val |-> r.val, err |-> r.err]]]
    /\ UNCHANGED <<nstmt, single>>

ConcNext ==
    \E p \in Procs :
        \/ \E beginOK \in BOOLEAN : ConcWrapCall(p, beginOK)
        \/ \E valid \in BOOLEAN : ConcQuery(p, valid)
        \/ \E e \in {NoErr, ErrFn} \cup {ErrExec(k) : k \in 1 .. MaxStmts},
              bk \in BOOLEAN : ConcReturn(p, e, bk)

SpecConc == ConcInit /\ [][ConcNext]_vars

\* ----------------------------------------------------------------- C13

\* C13: goroutines that call Wrap with contexts carrying no handle hold
\* different handles.  Under every interleaving the statements of each ran on
\* its own handle only; while its fn runs its transaction is open and holds
\* exactly its rows, none of which is in the table, whatever the others
\* committed or rolled back; its own Commit or Rollback found the handle
\* open, and decided alone whether its rows are in the table.
C13_ConcurrentWrapsIsolated ==
    /\ \A p, q \in Procs :
           (p # q /\ procs[p].tx # NoTx /\ procs[q].tx # NoTx)
               => procs[p].tx # procs[q].tx
    /\ \A p \in Procs :
           /\ procs[p].base = NoTx
           /\ procs[p].on \subseteq {procs[p].tx}
           /\ procs[p].pc = "fn" =>
                  /\ txs[procs[p].tx].state = "open"
                  /\ txs[procs[p].tx].writes = procs[p].rows
                  /\ procs[p].rows \cap table = {}
           /\ (procs[p].pc = "done" /\ procs[p].tx # NoTx) =>
                  /\ procs[p].final.open
                  /\ (procs[p].final.op = "Commit") <=> (procs[p].ret.err = NoErr)
                  /\ (procs[p].final.op = "Commit" /\ procs[p].final.err = NoErr)
                         => (procs[p].rows \subseteq table
                             /\ txs[procs[p].tx].state = "committed")
                  /\ procs[p].final.op = "Rollback"
                         => (procs[p].rows \cap table = {}
                             /\ txs[procs[p].tx].state = "rolledback")
                  /\ (procs[p].final.op = "Commit" /\ procs[p].final.err # NoErr)
                         => procs[p].rows \cap table = {}

\* Two goroutines were in their fn at the same time, each having written a
\* row; one has rolled back since and the other has committed.
C13_Witness ==
    \E p, q \in Procs :
        /\ p # q
        /\ procs[p].pc = "done" /\ procs[q].pc = "done"
        /\ procs[p].tx < procs[q].tx
        /\ \E a \in procs[p].rows, b \in procs[q].rows : b < a
        /\ procs[p].final.op = "Rollback" /\ procs[p].rows # {}
        /\ procs[q].final.op = "Commit" /\ procs[q].final.err = NoErr
        /\ procs[q].rows # {} /\ procs[q].rows \subseteq table

\* ============================================================ SpecConvert
\* convertQuery applied to every text of up to MaxLen characters over the
\* marker, two identifier characters, the space and one other character.

Alphabet == {"?", "a", "_", " ", ","}

Texts == UNION {[1 .. n -> Alphabet] : n \in 0 .. MaxLen}

ConvInit ==
    /\ table = {}
    /\ txs = <<>>
    /\ stack = <<>>
    /\ nstmt = 0
    /\ ncalls = 0
    /\ nframes = 0
    /\ tableAt = {}
    /\ log = <<>>
    /\ swallowed = FALSE
    /\ result = NoResult
    /\ baseCtx = NoTx
    /\ procs = <<>>
    /\ bulk = NoCall
    /\ conv \in {[text |-> t, done |-> FALSE, query |-> <<>>, names |-> <<>>] :
                    t \in Texts}
    /\ bind = <<>>
    /\ exec = NoExec

\* convertQuery is called with the text.
Convert ==
    /\ ~conv.done
    /\ conv' = [text |-> conv.text, done |-> TRUE,
                query |-> convertQuery(conv.text).query,
                names |-> convertQuery(conv.text).names]
    /\ UNCHANGED <<table, txs, stack, nstmt, ncalls, nframes, tableAt, log,
                   swallowed, result, baseCtx, procs, bulk, bind, exec>>

ConvNext == Convert

SpecConvert == ConvInit /\ [][ConvNext]_vars

\* ----------------------------------------------------------------- C19

\* Where the named-parameter tokens of t start: a marker followed by an
\* identifier character.
Tokens(t) == {i \in 1 .. Len(t) : t[i] = "?" /\ i < Len(t) /\ IsWord(t[i + 1])}

\* The markers of t that start no token.
BareMarkers(t) == {i \in 1 .. Len(t) : t[i] = "?" /\ i \notin Tokens(t)}

\* Where the positional placeholders of the text q are.
Placeholders(q) == {i \in 1 .. Len(q) : q[i] = "?"}

\* C19 (as claimed): for a text with n named-parameter tokens convertQuery
\* returns n names and a text with exactly n positional placeholders.
C19_NamesMatchPlaceholders ==
    conv.done =>
        /\ Len(conv.names) = Cardinality(Tokens(conv.text))
        /\ Cardinality(Placeholders(conv.query)) = Cardinality(Tokens(conv.text))

\* What convertQuery does: it returns n names, and a text in which every
\* token has become a placeholder and every other marker is still there.
ConvertKeepsBareMarkers ==
    conv.done =>
        /\ Len(conv.names) = Cardinality(Tokens(conv.text))
        /\ Cardinality(Placeholders(conv.query)) =
               Cardinality(Tokens(conv.text)) + Cardinality(BareMarkers(conv.text))

\* ----------------------------------------------------------------- C20

\* q is t without the white space t begins and ends with.
IsTrimmed(q, t) ==
    \E i \in 1 .. Len(t) + 1, j \in 0 .. Len(t) :
        /\ q = SubSeq(t, i, j)
        /\ \A k \in 1 .. Len(t) : (k < i \/ k > j) => t[k] = " "
        /\ q # <<>> => (q[1] # " " /\ q[Len(q)] # " ")

\* C20 (as claimed): for a text without named-parameter token convertQuery
\* returns the text as it is and no name.
C20_NoTokenUnchanged ==
    (conv.done /\ Tokens(conv.text) = {}) =>
        /\ conv.query = conv.text
        /\ conv.names = <<>>

\* C20 (amended): for a text without named-parameter token convertQuery
\* returns no name and the text without its leading and trailing white space,
\* hence the text as it is when it neither begins nor ends with white space.
C20_NoTokenTrimmed ==
    (conv.done /\ Tokens(conv.text) = {}) =>
        /\ IsTrimmed(conv.query, conv.text)
        /\ conv.names = <<>>
        /\ (conv.text = <<>> \/ (conv.text[1] # " " /\ conv.text[Len(conv.text)] # " "))
               => conv.query = conv.text

\* A text without token that begins and ends with a space, with a marker in
\* between, was converted.
C20_Witness ==
    /\ conv.done /\ Tokens(conv.text) = {}
    /\ Len(conv.text) >= 3
    /\ conv.text[1] = " " /\ conv.text[Len(conv.text)] = " "
    /\ conv.query # <<>> /\ "?" \in Range(conv.query)

\* ============================================================== SpecQuery
\* One goroutine makes top-level Wrap calls and one call of Query, with a
\* query text and a parameter mapping, or of QueryBulk: with its base context
\* or, from the fn of a Wrap, with the context Wrap handed to fn.  After the
\* call it may read the table with a select (TestInsert).  A panic ends the
\* program.

\* "set ?a", "  " and "select".
SetText   == <<"s", "e", "t", " ", "?", "a">>
BlankText == <<" ", " ">>
ReadText  == <<"s", "e", "l", "e", "c", "t">>
QueryTexts == {InsertText, SelectText, SetText, ShortText, BlankText}

\* The nil mapping, which reads like a mapping without keys.
NilParams == [n \in {} |-> Nil]

QueryParams == ParamMaps \cup {NilParams}

Backends ==
    {Backend(p, r, a) : p \in BOOLEAN, r \in {"ok", "fail", "norm"}, a \in {1, 2}}

\* Nothing is drawn for a step of the backend the call d never asked for.
Reached(bk, d) ==
    /\ ~bk.prep => d.err = ErrPrepare
    /\ (~d.prepared \/ d.panic) => (bk.run = "ok" /\ bk.aff = 1)
    /\ bk.run = "fail" => d.err.kind = "exec"
    /\ bk.run = "norm" => d.err = ErrBackend
    /\ bk.aff # 1 => (d.err = NoErr /\ d.mode = "exec")

QRunning == ~exec.out.panic

\* The values the rows of the executions es were written with.
ContentOf(es) ==
    [k \in {es[i].row : i \in {j \in DOMAIN es : es[j].ok}} |->
        es[CHOOSE i \in DOMAIN es : es[i].row = k].args]

\* The program calls Query with a text and a mapping.
QCallQuery(query, params, bk) ==
    LET k == nstmt + 1
        d == AdapterQuery(CallCtx, query, params, bk, k, <<>>)
    IN
    /\ QRunning
    /\ exec.op = "none"
    /\ Reached(bk, d)
    /\ txs' = d.txs
    /\ table' = d.table
    /\ nstmt' = nstmt + Len(d.execs)
    /\ stack' = Seen(d.err)
    /\ exec' = [op |-> "Query",
                wrap |-> IF stack = <<>> THEN 0 ELSE ncalls, ctx |-> CallCtx,
                query |-> query, params |-> params, outs |-> <<>>, bk |-> bk,
                first |-> nstmt, before |-> table, txsBefore |-> txs, out |-> d,
                after |-> ArgsAfter(query, params), follow |-> NoFollow]
    /\ UNCHANGED <<ncalls, nframes, tableAt, log, swallowed, result, baseCtx,
                   procs, bulk, conv, bind>>

\* The program calls QueryBulk.
QCallQueryBulk(query, params, outs, prepOK) ==
    LET q == QueryBulk(CallCtx, query, params, outs, prepOK, nstmt) IN
    /\ QRunning
    /\ exec.op = "none"
    /\ Len(outs) = Len(params)
    /\ ~prepOK => q.err = ErrPrepare
    /\ \A i \in 1 .. Len(outs) : i > Len(q.execs) => outs[i] = NoOutcome
    /\ txs' = q.txs
    /\ table' = q.table
    /\ nstmt' = nstmt + Len(q.execs)
    /\ stack' = Seen(q.err)
    /\ exec' = [op |-> "QueryBulk",
                wrap |-> IF stack = <<>> THEN 0 ELSE ncalls, ctx |-> CallCtx,
                query |-> query, params |-> params, outs |-> outs,
                bk |-> Backend(prepOK, "ok", 1), first |-> nstmt,
                before |-> table, txsBefore |-> txs,
                out |-> Did(q.txs, q.table, q.panic, q.prepared, q.on, q.execs,
                            q.rows, q.err,
                            IF q.execs = <<>> THEN "none" ELSE "exec",
                            QueryBulkOps(q)),
                after |-> ArgsAfter(query, params), follow |-> NoFollow]
    /\ UNCHANGED <<ncalls, nframes, tableAt, log, swallowed, result, baseCtx,
                   procs, bulk, conv, bind>>

\* After a call of Query the program reads the table: Query with the text
\* "select" and a nil mapping, with the context it holds then.
FollowSelect(bk) ==
    LET d == AdapterQuery(CallCtx, ReadText, NilParams, bk, nstmt + 1,
                          ContentOf(exec.out.execs))
    IN
    /\ QRunning
    /\ exec.op = "Query"
    /\ exec.follow.op = "none"
    /\ Reached(bk, d)
    /\ nstmt' = nstmt + Len(d.execs)
    /\ stack' = Seen(d.err)
    /\ exec' = [exec EXCEPT !.follow = [op |-> "Query", ctx |-> CallCtx, out |-> d]]
    /\ UNCHANGED <<table, txs, ncalls, nframes, tableAt, log, swallowed, result,
                   baseCtx, procs, bulk, conv, bind>>

QWrapCall(beginOK) == QRunning /\ TopWrapCall(beginOK, MaxCalls)

QFnReturn(e, bk) == QRunning /\ FnReturn(e, bk)

QueryNext ==
    \/ \E beginOK \in BOOLEAN : QWrapCall(beginOK)
    \/ \E query \in QueryTexts, params \in QueryParams, bk \in Backends :
          QCallQuery(query, params, bk)
    \/ \E query \in BulkQueries, params \in ParamSeqs, prepOK \in BOOLEAN :
          \E outs \in BackendOutcomes(query, Len(params), prepOK) :
              QCallQueryBulk(query, params, outs, prepOK)
    \/ \E bk \in Backends : FollowSelect(bk)
    \/ \E e \in {NoErr, ErrFn} \cup (IF stack = <<>> THEN {} ELSE {Top.lastErr}),
          bk \in BOOLEAN : QFnReturn(e, bk)

SpecQuery == Init /\ [][QueryNext]_vars

\* ------------------------------------------------- reading the call record

IsQuery == exec.op = "Query"

\* The translated text and the names of the call's query.
QTranslated == convertQuery(exec.query)

\* The call ran its statement: it was bound and prepared and did not panic.
Ran == exec.op # "none" /\ exec.out.prepared /\ ~exec.out.panic

\* The one synthetic row of a mutation.
IsSynthetic(rows) ==
    /\ Len(rows) = 1
    /\ DOMAIN rows[1] = {"affected_rows", "last_insert_id"}

\* ----------------------------------------------------------------- C23

\* C23: Query runs its statement as a read exactly when the first token of
\* the trimmed translated text is select, in any letter case; every other
\* statement it runs as a mutation, and returns the synthetic row when the
\* mutation succeeds.
C23_ReadIffSelect ==
    (IsQuery /\ Ran) =>
        /\ (exec.out.mode = "read") <=> HasRows(QTranslated.query)
        /\ ~HasRows(QTranslated.query) =>
               /\ exec.out.mode = "exec"
               /\ exec.out.err = NoErr => IsSynthetic(exec.out.rows)

\* What Query does instead: the statement is run as a read exactly when its
\* trimmed translated text begins with the letter s, in either case.
QueryReadsOnInitialS ==
    (IsQuery /\ Ran) =>
        ((exec.out.mode = "read") <=> QTranslated.query[1] \in {"s", "S"})

\* A statement whose first token is set was run.
C23_SetStatement ==
    /\ IsQuery /\ Ran /\ exec.out.err = NoErr
    /\ FirstToken(QTranslated.query) = <<"s", "e", "t">>

\* ----------------------------------------------------------------- C24

\* The call returned without failure.
Succeeded == exec.op # "none" /\ ~exec.out.panic /\ exec.out.err = NoErr

\* C24: every successful Query of a statement that is no select, and every
\* successful QueryBulk, returns exactly one row, whose fields are exactly
\* affected_rows and last_insert_id.
C24_MutationReturnsOneRow ==
    (Succeeded /\ (exec.op = "QueryBulk" \/ ~HasRows(QTranslated.query))) =>
        IsSynthetic(exec.out.rows)

\* What holds instead: the synthetic row is returned by every successful
\* QueryBulk and by every successful Query that ran its statement through
\* stmt.Exec.
ExecReturnsOneRow ==
    (Succeeded /\ (exec.op = "QueryBulk" \/ exec.out.mode = "exec")) =>
        IsSynthetic(exec.out.rows)

\* A set statement succeeded in a Query and no row came back.
C24_SetReturnsNoRow ==
    /\ IsQuery /\ Succeeded
    /\ FirstToken(QTranslated.query) = <<"s", "e", "t">>
    /\ exec.out.rows = <<>>

\* ----------------------------------------------------------------- C25

\* C25: whatever the query text and the parameters, a call of Query or of
\* QueryBulk ends by returning a result set or a failure; it never ends in a
\* panic.
C25_AlwaysReturns == exec.op # "none" => ~exec.out.panic

\* What holds instead: QueryBulk panics exactly when the trimmed translated
\* text has fewer than six characters, and Query exactly when that text is
\* empty and the backend prepared it.
PanicsOnShortText ==
    /\ exec.op = "QueryBulk" => (exec.out.panic <=> Len(QTranslated.query) < 6)
    /\ exec.op = "Query" =>
           (exec.out.panic <=> (QTranslated.query = <<>> /\ exec.out.prepared))

\* QueryBulk was called with a text of fewer than six characters.
C25_ShortBulkText ==
    /\ exec.op = "QueryBulk" /\ Len(QTranslated.query) < 6 /\ exec.out.panic

\* ----------------------------------------------------------------- C26

\* A Query with a context that carries no handle ran an insert and returned
\* without failure.
InsertedOnPool ==
    /\ IsQuery /\ Succeeded /\ exec.ctx = NoTx
    /\ exec.out.mode = "exec" /\ WritesRow(QTranslated.query)

\* The row the call's insert wrote, as a select returns it.
InsertedRow ==
    [id |-> exec.first + 1,
     vals |-> [j \in 1 .. Len(QTranslated.names) |-> exec.params[QTranslated.names[j]]]]

\* The select that followed returned without failure.
FollowSucceeded ==
    exec.follow.op # "none" /\ ~exec.follow.out.panic /\ exec.follow.out.err = NoErr

\* C26: a Query whose context carries no handle and whose insert succeeds
\* has committed the row when it returns, with no transaction written to:
\* the row is in the table from then on, the call returns the one row made of
\* the affected count and the identifier the backend reported, and a select
\* that follows, with whatever context, returns the row with the bound
\* values.  When the table was empty and the insert is the first statement,
\* the call returns [{affected_rows: 1, last_insert_id: 1}] and the select
\* exactly the one row with id 1 and the bound values.
C26_PoolInsertCommitted ==
    InsertedOnPool =>
        /\ exec.out.table = exec.before \cup {exec.first + 1}
        /\ exec.out.txs = exec.txsBefore
        /\ exec.first + 1 \in table
        /\ exec.out.rows = <<[affected_rows |-> exec.bk.aff,
                              last_insert_id |-> exec.first + 1]>>
        /\ FollowSucceeded =>
               \E i \in DOMAIN exec.follow.out.rows :
                   exec.follow.out.rows[i] = InsertedRow
        /\ (exec.before = {} /\ exec.first = 0 /\ exec.bk.aff = 1) =>
               /\ exec.out.rows = <<[affected_rows |-> 1, last_insert_id |-> 1]>>
               /\ FollowSucceeded =>
                      exec.follow.out.rows =
                          <<[id |-> 1, vals |-> InsertedRow.vals]>>

\* The insert of TestInsert, and the select after it made from the fn of a
\* Wrap, with a context that carries an open transaction.
C26_Witness ==
    /\ InsertedOnPool /\ exec.before = {} /\ exec.first = 0 /\ exec.bk.aff = 1
    /\ FollowSucceeded /\ IsOpen(exec.follow.ctx)
    /\ exec.follow.out.rows = <<[id |-> 1, vals |-> <<3, 4>>]>>

\* The insert of TestInsert, and the select after it made with the base
\* context.
C26_TestInsert ==
    /\ InsertedOnPool /\ exec.before = {} /\ exec.first = 0
    /\ FollowSucceeded /\ exec.follow.ctx = NoTx
    /\ Len(exec.follow.out.rows) = 1

\* ----------------------------------------------------------------- C27

C27_QueryInWrap ==
    /\ IsQuery /\ Succeeded /\ exec.ctx # NoTx
    /\ Len(QTranslated.query) < Len(exec.query)
    /\ exec.after = [query |-> exec.query, params |-> exec.params]

\* ----------------------------------------------------------------- C28

\* The mapping of the call has no value for some name of its query.
QLacks == \E j \in 1 .. Len(QTranslated.names) :
              QTranslated.names[j] \notin DOMAIN exec.params

\* C28: when the mapping lacks a name of the translated query, Query returns
\* the missing-parameter failure and no rows, having prepared no statement
\* and run nothing, on the pool or on the transaction the context carries;
\* the table and every transaction are as they were.
C28_BindFailureBeforePrepare ==
    (IsQuery /\ QLacks) =>
        /\ exec.out.err.kind = "missing"
        /\ exec.out.rows = <<>>
        /\ ~exec.out.prepared /\ ~exec.out.panic
        /\ exec.out.ops = <<>>
        /\ exec.out.execs = <<>>
        /\ exec.out.table = exec.before
        /\ exec.out.txs = exec.txsBefore

\* A Query made from the fn of a Wrap, on an open transaction, with an
\* insert of two names and a mapping without the second.
C28_Witness ==
    /\ IsQuery /\ QLacks /\ IsOpen(exec.ctx)
    /\ WritesRow(QTranslated.query)
    /\ exec.out.err = ErrMissing(2)

\* A Query with a nil mapping and a text that names a parameter.
C28_NilMapping ==
    /\ IsQuery /\ QLacks /\ exec.params = NilParams
    /\ exec.out.err = ErrMissing(1)

\* ----------------------------------------------------------------- C29

\* The positions of ops that hold the call op.
Of(ops, op) == {i \in DOMAIN ops : ops[i] = op}

\* The call d acquired a row cursor: stmt.Query returned without failure.
GotCursor(d) == d.mode = "read" /\ d.execs # <<>> /\ d.execs[1].ok

\* The call d prepared at most one statement and, when it prepared one, made
\* all its calls on it and closed it once, last; the cursor it acquired, if
\* any, it closed once, before the statement; it closed nothing else.
Released(d) ==
    /\ Cardinality(Of(d.ops, "Prepare")) = (IF d.prepared THEN 1 ELSE 0)
    /\ Cardinality(Of(d.ops, "StmtClose")) = (IF d.prepared THEN 1 ELSE 0)
    /\ Cardinality(Of(d.ops, "RowsClose")) = (IF GotCursor(d) THEN 1 ELSE 0)
    /\ d.prepared =>
           /\ d.ops[1] = "Prepare"
           /\ d.ops[Len(d.ops)] = "StmtClose"
    /\ \A i \in Of(d.ops, "RowsClose") : i > 1 /\ d.ops[i - 1] = "Query"
    /\ ~d.prepared => d.ops = <<>>

\* C29: every call of Query and of QueryBulk prepares at most one statement;
\* on every way out after the prepare (success, execution failure, bind
\* failure inside the loop of QueryBulk, failure to normalize the result)
\* the statement has been closed when the call is over, and so has the row
\* cursor of a read.
C29_StatementReleased ==
    /\ exec.op # "none" => Released(exec.out)
    /\ exec.follow.op # "none" => Released(exec.follow.out)

\* A QueryBulk executed once and then failed to bind its second mapping.
C29_Witness ==
    /\ exec.op = "QueryBulk" /\ exec.out.prepared
    /\ exec.out.err.kind = "missing" /\ Len(exec.out.execs) = 1
    /\ exec.out.ops = <<"Prepare", "Exec", "StmtClose">>

\* A select found a row and failed to normalize it.
C29_ScanFailure ==
    /\ exec.follow.op # "none" /\ exec.follow.out.err = ErrBackend
    /\ exec.follow.out.ops = <<"Prepare", "Query", "RowsClose", "StmtClose">>

\* An execution of a Query failed in the backend.
C29_ExecFailure ==
    /\ IsQuery /\ exec.out.err.kind = "exec" /\ exec.out.mode = "exec"
    /\ exec.out.ops = <<"Prepare", "Exec", "StmtClose">>

\* =============================================================== SpecBind
\* reorderParameters applied to every mapping over three names and every
\* list of up to MaxNames of these names.

Names == {<<"a">>, <<"b">>, <<"c">>}

BindValues == {1, 2}

\* The mappings: every choice of keys, every choice of values.  A nil mapping
\* is read like the one without keys.
Mappings == UNION {[ks -> BindValues] : ks \in SUBSET Names}

NameLists == UNION {[1 .. n -> Names] : n \in 0 .. MaxNames}

BindInit ==
    /\ table = {}
    /\ txs = <<>>
    /\ stack = <<>>
    /\ nstmt = 0
    /\ ncalls = 0
    /\ nframes = 0
    /\ tableAt = {}
    /\ log = <<>>
    /\ swallowed = FALSE
    /\ result = NoResult
    /\ baseCtx = NoTx
    /\ procs = <<>>
    /\ bulk = NoCall
    /\ conv = <<>>
    /\ bind \in {[params |-> m, names |-> l, done |-> FALSE, vals |-> <<>>,
                  err |-> NoErr] : m \in Mappings, l \in NameLists}
    /\ exec = NoExec

\* reorderParameters is called with the mapping and the list.
Bind ==
    /\ ~bind.done
    /\ bind' = [bind EXCEPT !.done = TRUE,
                            !.vals = reorderParameters(bind.params, bind.names).vals,
                            !.err = reorderParameters(bind.params, bind.names).err]
    /\ UNCHANGED <<table, txs, stack, nstmt, ncalls, nframes, tableAt, log,
                   swallowed, result, baseCtx, procs, bulk, conv, exec>>

BindNext == Bind

SpecBind == BindInit /\ [][BindNext]_vars

\* The positions of the list whose name the mapping has no value for.
Absent == {i \in DOMAIN bind.names : bind.names[i] \notin DOMAIN bind.params}

\* ----------------------------------------------------------------- C21

\* C21: when the mapping has a value for every name of the list,
\* reorderParameters returns without failure a value list as long as the
\* name list whose i-th value is the mapping's value for the i-th name; a
\* name that occurs at several positions gets the same value at each.
C21_BindsInListOrder ==
    (bind.done /\ Absent = {}) =>
        /\ bind.err = NoErr
        /\ Len(bind.vals) = Len(bind.names)
        /\ \A i \in DOMAIN bind.names : bind.vals[i] = bind.params[bind.names[i]]
        /\ \A i, j \in DOMAIN bind.names :
               bind.names[i] = bind.names[j] => bind.vals[i] = bind.vals[j]

\* A list in which a name occurs twice, around a name with another value, was
\* bound from a mapping that holds a key the list does not use.
C21_Witness ==
    /\ bind.done /\ Absent = {} /\ bind.err = NoErr
    /\ Len(bind.names) = MaxNames
    /\ bind.names[1] = bind.names[MaxNames]
    /\ bind.names[2] # bind.names[1]
    /\ bind.vals[1] # bind.vals[2]
    /\ DOMAIN bind.params # Range(bind.names)

\* ----------------------------------------------------------------- C22

\* C22: when the mapping (a nil mapping included) has no value for some name
\* of the list, reorderParameters fails with the missing-parameter failure
\* of the first such name in list order, whatever other names are absent,
\* and returns no value list.
C22_FirstMissingReported ==
    (bind.done /\ Absent # {}) =>
        /\ bind.err.kind = "missing"
        /\ bind.err.id \in Absent
        /\ \A i \in Absent : bind.err.id <= i
        /\ bind.vals = <<>>

\* Two different names are absent, the first of them after a name that was
\* bound.
C22_Witness ==
    /\ bind.done /\ bind.err.kind = "missing"
    /\ bind.err.id > 1
    /\ \E i \in Absent : bind.names[i] # bind.names[bind.err.id]

\* The mapping is nil (it has no key) and the first name is reported.
C22_NilMapping ==
    /\ bind.done /\ DOMAIN bind.params = {} /\ bind.names # <<>>
    /\ bind.err = ErrMissing(1)

====
